---- MODULE Spec2Model ----
(***************************************************************************)
(* A model of owm, a layout generator for a tiling compositor.             *)
(*                                                                         *)
(*   - the geometric post-processor (src/src/post_processing.rs) on the    *)
(*     rectangle value types of src/src/rect.rs;                           *)
(*   - the layout cache of LayoutGen (src/src/lib.rs) and the layout       *)
(*     demand handler of the binary (src/src/bin/owm.rs);                  *)
(*   - the decoder of bit-vectors into rectangles                          *)
(*     (src/owm-problem/src/encoding.rs, src/src/binary.rs) and the passes *)
(*     of RawLayoutGen::layout that follow it, with f64 arithmetic         *)
(*     modelled bit by bit;                                                *)
(*   - the objectives (src/owm-problem/src/objective, src/src/objective)   *)
(*     and their weighted sum, Problem::evaluate.                          *)
(***************************************************************************)
EXTENDS Integers, Sequences, FiniteSets, TLC

VARIABLES
    \* post-processor: the arguments and locals of remove_gaps / overlap_borders
    container,          \* Size of the container
    max_size,           \* Size, the largest size a rectangle may take
    border_thickness,   \* argument of overlap_borders
    rects,              \* the rectangle sequence mutated in place
    freedoms,           \* remove_gaps: Vec<Freedoms>, kept across iterations
    pc,                 \* position of the post-processor
    run,                \* which application of remove_gaps is running (1 or 2)
    input,              \* history: the rectangles the pass was given
    flip_flop_args,     \* flip_flop: <<dist, x, y>>, or <<>>
    flip_flop_result,   \* flip_flop: the pair returned, or <<>>
    \* LayoutGen (src/src/lib.rs)
    cache,              \* HashMap<Key, Arc<OnceCell<Vec<Rect>>>>
    threads,            \* the threads spawned by _layout that still run
    requests,           \* history: the key of every layout() call, in order
    delivered,          \* history: per layout() call, the layouts its callback got
    spawned,            \* history: per key, how many searches were started
    writes,             \* history: per key, how often its cell was written
    prevs,              \* history: per key, the previous layout its search got
    status,             \* what the latest try_layout call returned
    inserted,           \* history: the keys a cell was ever inserted for
    panicked,           \* a thread panicked (try_insert on a set cell)
    \* the binary (src/src/bin/owm.rs)
    CACHE,              \* static CACHE: Mutex<HashMap<Key, Vec<Rect>>>
    STARTED,            \* static STARTED: Mutex<HashSet<Key>>
    demand_threads,     \* the threads spawned by the LayoutDemand handler
    proxy,              \* the requests sent to the compositor for the latest demand
    demands,            \* history: the number of LayoutDemand events so far
    demand,             \* history: the key of the latest LayoutDemand event, in a sequence
    searches,           \* history: per key, how many threads the handler spawned
    inserts,            \* history: per key, how often CACHE.insert ran
    \* Decoder (src/owm-problem/src/encoding.rs) within RawLayoutGen::layout
    min_size,           \* Size, the smallest size a rectangle may take
    decoder_count,      \* the number of rectangles to decode
    point,              \* the bit-vector that is decoded
    passes,             \* history: the passes applied to rects, in order
    field_range,        \* reversed_bits_to_frac: <<start, end>> of the range
    field_value,        \* reversed_bits_to_frac: <<the f64 returned>>, or <<>>
    \* Problem and its objectives (src/src/objective)
    weights,            \* Weights, a weight per objective
    area_ratios,        \* Vec<AreaRatio>
    previous_layout,    \* Vec<Rect>, the previous layout
    objective,          \* which evaluate was called, "none" before the call
    fitness,            \* the f64 that evaluate returned
    covered,            \* the usize that covered_area returned
    obscured,           \* the usize that obscured_area returned
    new_type,           \* the bounded type whose new is called
    new_arg,            \* the f64 given to new
    new_result,         \* the Result that new returned, <<>> before the call
    mode                \* which front end drives the run

ppvars == <<container, max_size, border_thickness, rects, freedoms, pc, run,
            input, flip_flop_args, flip_flop_result>>

genvars == <<cache, threads, requests, delivered, spawned, writes, prevs, status,
             inserted, panicked>>

binvars == <<CACHE, STARTED, demand_threads, proxy, demands, demand, searches, inserts>>

decvars == <<min_size, decoder_count, point, passes, field_range, field_value>>

objvars == <<weights, area_ratios, previous_layout, objective, fitness, covered,
            obscured, new_type, new_arg, new_result>>

vars == <<ppvars, genvars, binvars, decvars, objvars, mode>>

----------------------------------------------------------------------------
(* Bounds of the model.                                                    *)

MaxWidth == 2
MaxHeight == 2
MaxRects == 2
MaxCount == 2
MaxRequests == 2
MaxDemands == 3
MaxThickness == 2
MaxTrimRects == 1
MaxPointBits == 8
MaxFieldBits == 3
MaxStart == 1
MaxSpan == 4
MaxRatio == 2
MaxRatios == 3
MaxWeight == 2

----------------------------------------------------------------------------
(* src/src/rect.rs: value types.                                           *)

Size(w, h) == [width |-> w, height |-> h]

Rect(x, y, w, h) == [x |-> x, y |-> y, width |-> w, height |-> h]

left(r) == r.x

right(r) == r.x + r.width

top(r) == r.y

bottom(r) == r.y + r.height

area(s) == s.width * s.height

\* RangeExclusive(a, b) is the pair <<a, b>>.
x_range_exclusive(r) == <<left(r), right(r)>>

y_range_exclusive(r) == <<top(r), bottom(r)>>

contains(range, x) == x > range[1] /\ x < range[2]

contains_either(range, other) ==
    contains(range, other[1]) \/ contains(range, other[2])

intersects(range, other) ==
    range = other \/ contains_either(range, other) \/ contains_either(other, range)

\* Rect::overlap: the common rectangle of two rectangles, <<>> for None.
overlap(r, o) ==
    LET l == IF left(r) > left(o) THEN left(r) ELSE left(o)
        rt == IF right(r) < right(o) THEN right(r) ELSE right(o)
        t == IF top(r) > top(o) THEN top(r) ELSE top(o)
        b == IF bottom(r) < bottom(o) THEN bottom(r) ELSE bottom(o)
    IN  IF l < rt /\ t < b THEN <<Rect(l, t, rt - l, b - t)>> ELSE <<>>

\* usize::saturating_sub
saturating_sub(a, b) == IF a > b THEN a - b ELSE 0

min(a, b) == IF a < b THEN a ELSE b

max(a, b) == IF a > b THEN a ELSE b

\* Iterator::max().unwrap_or(d) and Iterator::min().unwrap_or(d) over a set.
max_or(S, d) == IF S = {} THEN d ELSE CHOOSE m \in S : \A v \in S : v <= m

min_or(S, d) == IF S = {} THEN d ELSE CHOOSE m \in S : \A v \in S : m <= v

\* expand_left that moves the position and keeps the width.
expand_left_keeping_width(r, value) == [r EXCEPT !.x = r.x - value]

\* Rect::expand_left .. expand_bottom; `pos.x -= value` underflows when
\* value > x, which the guard Underflows reports.
expand_left(r, value) == [r EXCEPT !.x = r.x - value, !.width = r.width + value]

expand_right(r, value) == [r EXCEPT !.width = r.width + value]

expand_top(r, value) == [r EXCEPT !.y = r.y - value, !.height = r.height + value]

expand_bottom(r, value) == [r EXCEPT !.height = r.height + value]

\* xs of covered_area: the left and right edges, sorted and deduplicated.
sorted_xs(rs) ==
    LET S == {left(rs[i]) : i \in DOMAIN rs} \cup {right(rs[i]) : i \in DOMAIN rs}
    IN  [k \in 1..Cardinality(S) |->
            CHOOSE v \in S : Cardinality({u \in S : u < v}) = k - 1]

\* rects.sort_by_key(|rect| rect.top()): a stable sort.
sort_by_top(rs) ==
    LET rank(i) == Cardinality({j \in DOMAIN rs :
                        \/ top(rs[j]) < top(rs[i])
                        \/ (top(rs[j]) = top(rs[i]) /\ j < i)}) + 1
    IN  [k \in DOMAIN rs |-> rs[CHOOSE i \in DOMAIN rs : rank(i) = k]]

\* The inner sum of covered_area for the strip l..r: over the rectangles
\* from index k on, with last_y2 the lowest bottom seen so far.
RECURSIVE strip_area(_, _, _, _, _)
strip_area(sorted, k, l, r, last_y2) ==
    IF k > Len(sorted) THEN 0
    ELSE LET rect == sorted[k]
         IN  IF left(rect) <= l /\ r <= right(rect)
             THEN (r - l) * saturating_sub(bottom(rect), max(last_y2, top(rect)))
                  + strip_area(sorted, k + 1, l, r, max(bottom(rect), last_y2))
             ELSE strip_area(sorted, k + 1, l, r, last_y2)

\* The outer sum of covered_area, over the windows (xs[k], xs[k+1]).
RECURSIVE strips_area(_, _, _)
strips_area(sorted, xs, k) ==
    IF k >= Len(xs) THEN 0
    ELSE strip_area(sorted, 1, xs[k], xs[k + 1], 0) + strips_area(sorted, xs, k + 1)

\* covered_area: the total area of a union of rectangles.
covered_area(rs) == strips_area(sort_by_top(rs), sorted_xs(rs), 1)

\* The overlaps of rectangle i with the rectangles from index other_i on.
RECURSIVE overlaps_of(_, _, _)
overlaps_of(rs, i, other_i) ==
    IF other_i > Len(rs) THEN <<>>
    ELSE (IF other_i # i THEN overlap(rs[i], rs[other_i]) ELSE <<>>)
         \o overlaps_of(rs, i, other_i + 1)

RECURSIVE sum_covered_overlaps(_, _)
sum_covered_overlaps(rs, i) ==
    IF i > Len(rs) THEN 0
    ELSE covered_area(overlaps_of(rs, i, 1)) + sum_covered_overlaps(rs, i + 1)

RECURSIVE all_overlaps(_, _)
all_overlaps(rs, i) ==
    IF i > Len(rs) THEN <<>>
    ELSE overlaps_of(rs, i, 1) \o all_overlaps(rs, i + 1)

\* obscured_area without the subtraction of the union of all overlaps.
obscured_area_counting_twice(rs) ==
    IF Len(rs) < 2 THEN 0
    ELSE sum_covered_overlaps(rs, 1)

\* obscured_area: the total area obscured in a set of rectangles.
obscured_area(rs) ==
    IF Len(rs) < 2 THEN 0
    ELSE sum_covered_overlaps(rs, 1) - covered_area(all_overlaps(rs, 1))

----------------------------------------------------------------------------
(* src/src/post_processing.rs                                              *)

div_ceil(x, y) == IF x % y > 0 THEN (x \div y) + 1 ELSE x \div y

\* flip_flop that halves the distance rounding down.
flip_flop_rounding_down(dist, x, y) ==
    LET x_ == min(x, dist \div 2)
        y1 == min(y, dist - x_)
        x1 == min(x, dist - y1)
    IN  <<x1, y1>>

\* The closure flip_flop of remove_gaps: <<x, y>>.
flip_flop(dist, x, y) ==
    LET x_ == min(x, div_ceil(dist, 2))
        y1 == min(y, dist - x_)
        x1 == min(x, dist - y1)
    IN  <<x1, y1>>

Sides(l, r, t, b) == [left |-> l, right |-> r, top |-> t, bottom |-> b]

\* struct Sides::flatten, as the set of the four values.
flatten(f) == {f.left, f.right, f.top, f.bottom}

\* The freedoms remove_gaps starts with, before its loop.
initial_freedoms(c, rs) ==
    [i \in DOMAIN rs |->
        Sides(left(rs[i]),
              saturating_sub(c.width, right(rs[i])),
              top(rs[i]),
              saturating_sub(c.height, bottom(rs[i])))]

\* One element of x_rays: the ray of rectangle i along the x axis.
x_ray(ms, c, rs, fr, i) ==
    LET rect == rs[i]
        y_range == y_range_exclusive(rect)
        max_free == saturating_sub(ms.width, rect.width)
        l == IF fr[i].left = 0
             THEN left(rect)
             ELSE max(max_or({right(rs[o]) : o \in
                                {o \in DOMAIN rs :
                                    /\ right(rs[o]) < left(rect)
                                    /\ intersects(y_range, y_range_exclusive(rs[o]))}},
                             0),
                      saturating_sub(left(rect), max_free))
        r == IF fr[i].right = 0
             THEN right(rect)
             ELSE min(min_or({left(rs[o]) : o \in
                                {o \in DOMAIN rs :
                                    /\ right(rect) < left(rs[o])
                                    /\ intersects(y_range, y_range_exclusive(rs[o]))}},
                             c.width),
                      right(rect) + max_free)
    IN  <<l, r>>

\* One element of y_rays: the ray of rectangle i along the y axis.
y_ray(ms, c, rs, fr, i) ==
    LET rect == rs[i]
        x_range == x_range_exclusive(rect)
        max_free == saturating_sub(ms.height, rect.height)
        t == IF fr[i].top = 0
             THEN top(rect)
             ELSE max(max_or({bottom(rs[o]) : o \in
                                {o \in DOMAIN rs :
                                    /\ bottom(rs[o]) < top(rect)
                                    /\ intersects(x_range, x_range_exclusive(rs[o]))}},
                             0),
                      saturating_sub(top(rect), max_free))
        b == IF fr[i].bottom = 0
             THEN bottom(rect)
             ELSE min(min_or({top(rs[o]) : o \in
                                {o \in DOMAIN rs :
                                    /\ bottom(rect) < top(rs[o])
                                    /\ intersects(x_range, x_range_exclusive(rs[o]))}},
                             c.height),
                      bottom(rect) + max_free)
    IN  <<t, b>>

\* own_freedoms, with the room to the container only.
own_freedoms_without_max_size(ms, c, rs) ==
    [i \in DOMAIN rs |->
        Sides(left(rs[i]),
              saturating_sub(c.width, right(rs[i])),
              top(rs[i]),
              saturating_sub(c.height, bottom(rs[i])))]

\* The freedoms every iteration starts from: room to max_size shared between
\* the two directions of an axis, each capped by the room to the container.
own_freedoms(ms, c, rs) ==
    [i \in DOMAIN rs |->
        LET rect == rs[i]
            lr == flip_flop(saturating_sub(ms.width, rect.width),
                            left(rect),
                            saturating_sub(c.width, right(rect)))
            tb == flip_flop(saturating_sub(ms.height, rect.height),
                            top(rect),
                            saturating_sub(c.height, bottom(rect)))
        IN  Sides(lr[1], lr[2], tb[1], tb[2])]

\* The body of one `if ray.intersects(other_ray)` block of the pair loop, for
\* the axis whose near side is `near` (left or top) and far side is `far`.
\* range and other_range are the spans of rect and other_rect on that axis,
\* cross_intersects is x_intersects or y_intersects.
tighten_axis(fr, i, other_i, near, far, range, other_range, cross_intersects) ==
    LET f1 == IF cross_intersects /\ contains(other_range, range[1])
              THEN [fr EXCEPT ![i][near] = 0] ELSE fr
        f2 == IF cross_intersects /\ contains(range, other_range[2])
              THEN [f1 EXCEPT ![other_i][far] = 0] ELSE f1
        f3 == IF cross_intersects /\ contains(other_range, range[2])
              THEN [f2 EXCEPT ![i][far] = 0] ELSE f2
        f4 == IF cross_intersects /\ contains(range, other_range[1])
              THEN [f3 EXCEPT ![other_i][near] = 0] ELSE f3
        f5 == IF other_range[2] <= range[1]
                 /\ (range[1] - other_range[2] > 0 \/ cross_intersects)
              THEN LET p == flip_flop(range[1] - other_range[2],
                                      f4[i][near], f4[other_i][far])
                   IN  [f4 EXCEPT ![i][near] = p[1], ![other_i][far] = p[2]]
              ELSE f4
        f6 == IF range[2] <= other_range[1]
                 /\ (other_range[1] - range[2] > 0 \/ cross_intersects)
              THEN LET p == flip_flop(other_range[1] - range[2],
                                      f5[i][far], f5[other_i][near])
                   IN  [f5 EXCEPT ![i][far] = p[1], ![other_i][near] = p[2]]
              ELSE f5
    IN  f6

\* The body of the loop over tuple_combinations for the pair (i, other_i).
tighten_pair(rs, xr, yr, fr, i, other_i) ==
    LET x_range == x_range_exclusive(rs[i])
        other_x_range == x_range_exclusive(rs[other_i])
        y_range == y_range_exclusive(rs[i])
        other_y_range == y_range_exclusive(rs[other_i])
        fx == IF intersects(yr[i], yr[other_i])
              THEN tighten_axis(fr, i, other_i, "left", "right", x_range,
                                other_x_range, intersects(y_range, other_y_range))
              ELSE fr
        fy == IF intersects(xr[i], xr[other_i])
              THEN tighten_axis(fx, i, other_i, "top", "bottom", y_range,
                                other_y_range, intersects(x_range, other_x_range))
              ELSE fx
    IN  fy

\* The loop over tuple_combinations: pairs (i, other_i), i < other_i, in
\* lexicographic order.
RECURSIVE tighten_pairs(_, _, _, _, _, _)
tighten_pairs(rs, xr, yr, fr, i, other_i) ==
    IF i >= Len(rs) THEN fr
    ELSE IF other_i > Len(rs) THEN tighten_pairs(rs, xr, yr, fr, i + 1, i + 2)
    ELSE tighten_pairs(rs, xr, yr, tighten_pair(rs, xr, yr, fr, i, other_i),
                       i, other_i + 1)

\* The freedoms of one iteration of the loop of remove_gaps, from the
\* rectangles and the freedoms the previous iteration left.
iteration_freedoms(ms, c, rs, fr) ==
    LET xr == [i \in DOMAIN rs |-> x_ray(ms, c, rs, fr, i)]
        yr == [i \in DOMAIN rs |-> y_ray(ms, c, rs, fr, i)]
    IN  tighten_pairs(rs, xr, yr, own_freedoms(ms, c, rs), 1, 2)

\* largest_safe_step, without `.filter(|x| *x > 0)`.
largest_safe_step_without_filter(fr) ==
    LET all == UNION {flatten(fr[i]) : i \in DOMAIN fr}
    IN  IF all = {} THEN <<>> ELSE <<min_or(all, 0)>>

\* largest_safe_step: <<the least positive freedom>>, <<>> for None.
largest_safe_step(fr) ==
    LET positive == {v \in UNION {flatten(fr[i]) : i \in DOMAIN fr} : v > 0}
    IN  IF positive = {} THEN <<>> ELSE <<min_or(positive, 0)>>

\* The expansion of one rectangle by its freedoms, without the cap.
expand_by_freedoms(rect, f, step) ==
    expand_bottom(expand_top(expand_right(expand_left(rect, f.left), f.right), f.top),
                  f.bottom)

\* The expansion of one rectangle by its freedoms, each capped by the step.
expand(rect, f, step) ==
    expand_bottom(
        expand_top(
            expand_right(
                expand_left(rect, min(f.left, step)),
                min(f.right, step)),
            min(f.top, step)),
        min(f.bottom, step))

\* `pos.x -= value` or `pos.y -= value` would underflow.
Underflows(rect, f, step) ==
    min(f.left, step) > rect.x \/ min(f.top, step) > rect.y

\* remove_gaps as a whole: the loop runs until no freedom is positive. The
\* result tells whether a subtraction underflowed on the way.
RECURSIVE remove_gaps_loop(_, _, _, _)
RECURSIVE remove_gaps_iteration(_, _, _, _, _)
remove_gaps_iteration(ms, c, rs, fr, largest) ==
    IF largest = <<>> THEN [rects |-> rs, underflow |-> FALSE]
    ELSE IF \E i \in DOMAIN rs : Underflows(rs[i], fr[i], largest[1])
    THEN [rects |-> rs, underflow |-> TRUE]
    ELSE remove_gaps_loop(ms, c,
                          [i \in DOMAIN rs |-> expand(rs[i], fr[i], largest[1])], fr)

remove_gaps_loop(ms, c, rs, freedoms0) ==
    CHOOSE out \in {remove_gaps_iteration(ms, c, rs, fr[1], fr[2]) :
                        fr \in {<<f, largest_safe_step(f)>> :
                                    f \in {iteration_freedoms(ms, c, rs, freedoms0)}}} :
        TRUE

remove_gaps(ms, c, rs) == remove_gaps_loop(ms, c, rs, initial_freedoms(c, rs))

\* NonZeroUsize::new(v).unwrap_or(1)
non_zero_or_one(v) == IF v = 0 THEN 1 ELSE v

\* trim_outside with the width clamped to the container's width only.
trim_outside_ignoring_position(c, rs) ==
    [i \in DOMAIN rs |->
        [rs[i] EXCEPT !.width = non_zero_or_one(min(rs[i].width, c.width)),
                      !.height = non_zero_or_one(min(rs[i].height, c.height))]]

\* trim_outside
trim_outside(c, rs) ==
    [i \in DOMAIN rs |->
        [rs[i] EXCEPT !.width = non_zero_or_one(min(rs[i].width, c.width - rs[i].x)),
                      !.height = non_zero_or_one(min(rs[i].height, c.height - rs[i].y))]]

\* The closure filter_map of overlap_borders over every other_i: the pairs
\* <<distance, other_i>> of the rectangles beyond one side of rectangle i.
neighbours(rs, i, side) ==
    LET rect == rs[i]
        x_range == x_range_exclusive(rect)
        y_range == y_range_exclusive(rect)
        l(o) == CASE side = "left" -> left(rect)
                  [] side = "right" -> left(rs[o])
                  [] side = "top" -> top(rect)
                  [] side = "bottom" -> top(rs[o])
        r(o) == CASE side = "left" -> right(rs[o])
                  [] side = "right" -> right(rect)
                  [] side = "top" -> bottom(rs[o])
                  [] side = "bottom" -> bottom(rect)
        crosses(o) == IF side \in {"left", "right"}
                      THEN intersects(y_range, y_range_exclusive(rs[o]))
                      ELSE intersects(x_range, x_range_exclusive(rs[o]))
    IN  {<<l(o) - r(o), o>> : o \in {o \in DOMAIN rs : o # i /\ crosses(o) /\ l(o) >= r(o)}}

\* Iterator::min on pairs: the least distance, then the least index.
min_pair(S) ==
    CHOOSE m \in S : \A q \in S : m[1] < q[1] \/ (m[1] = q[1] /\ m[2] <= q[2])

\* One field of `borders`: .min().and_then(filter_out_of_range), <<>> for
\* None and <<other_i>> for Some(other_i).
border(t, rs, i, side) ==
    LET S == neighbours(rs, i, side)
    IN  IF S = {} THEN <<>>
        ELSE IF min_pair(S)[1] <= t THEN <<min_pair(S)[2]>> ELSE <<>>

\* The value one `match borders.<side>` expands rectangle i by; room is the
\* distance from that side to the container.
expansion(t, i, b, room) ==
    IF b # <<>>
    THEN IF i < b[1] THEN div_ceil(t, 2) ELSE t \div 2
    ELSE min(t, room)

\* The four expansions of rectangle i in overlap_borders.
expansions(t, c, rs, i) ==
    Sides(expansion(t, i, border(t, rs, i, "left"), left(rs[i])),
          expansion(t, i, border(t, rs, i, "right"),
                    saturating_sub(c.width, right(rs[i]))),
          expansion(t, i, border(t, rs, i, "top"), top(rs[i])),
          expansion(t, i, border(t, rs, i, "bottom"),
                    saturating_sub(c.height, bottom(rs[i]))))

\* overlap_borders. A position below 0 stands for the wrapped value of a
\* `pos.x -= value` that underflows without overflow checks.
overlap_borders(t, c, rs) ==
    [i \in DOMAIN rs |->
        LET e == expansions(t, c, rs, i)
        IN  expand_bottom(
                expand_top(expand_right(expand_left(rs[i], e.left), e.right), e.top),
                e.bottom)]

----------------------------------------------------------------------------
(* f64 arithmetic on the values the decoder meets: zero and positive normal *)
(* numbers. A number is [m, e]: m the 53 bits of the significand, most     *)
(* significant first, and e the exponent of its last bit; zero has m = <<>>. *)
(* Every operation rounds to nearest, ties to even.                         *)

Precision == 53

f64_zero == [m |-> <<>>, e |-> 0]

\* The values without a significand are told apart by e: 0 is zero, 1 is
\* positive infinity and 2 is NaN.
f64_infinity == [m |-> <<>>, e |-> 1]

f64_nan == [m |-> <<>>, e |-> 2]

\* The bits of a natural number, most significant first, <<>> for 0.
RECURSIVE bits_of(_)
bits_of(n) == IF n = 0 THEN <<>> ELSE Append(bits_of(n \div 2), n % 2)

\* The natural number of a sequence of bits, most significant first.
RECURSIVE nat_of(_)
nat_of(bs) ==
    IF bs = <<>> THEN 0
    ELSE 2 * nat_of(SubSeq(bs, 1, Len(bs) - 1)) + bs[Len(bs)]

zeros(n) == [i \in 1..n |-> 0]

\* Bit sequences are handled in limbs of LimbBits bits, to base Base.
LimbBits == 13

Base == 2 ^ LimbBits

\* bs without its leading zeros.
strip(bs) ==
    IF \A i \in DOMAIN bs : bs[i] = 0 THEN <<>>
    ELSE SubSeq(bs, CHOOSE i \in DOMAIN bs : bs[i] = 1 /\ \A j \in 1..(i - 1) : bs[j] = 0,
                Len(bs))

\* The limbs of a bit sequence, most significant first.
limbs_of(bs) ==
    LET n == (Len(bs) + LimbBits - 1) \div LimbBits
        padded == zeros(n * LimbBits - Len(bs)) \o bs
    IN  [j \in 1..n |-> nat_of(SubSeq(padded, LimbBits * (j - 1) + 1, LimbBits * j))]

\* The bits of a sequence of limbs, LimbBits per limb.
bits_of_limbs(ls) ==
    [i \in 1..(LimbBits * Len(ls)) |->
        (ls[((i - 1) \div LimbBits) + 1] \div (2 ^ (LimbBits - 1 - ((i - 1) % LimbBits)))) % 2]

\* bs + 1, for bs that starts with 1; one bit longer when every bit is 1.
increment(bs) ==
    IF \A i \in DOMAIN bs : bs[i] = 1 THEN <<1>> \o zeros(Len(bs))
    ELSE LET last == CHOOSE i \in DOMAIN bs :
                        bs[i] = 0 /\ \A j \in (i + 1)..Len(bs) : bs[j] = 1
         IN  [i \in DOMAIN bs |-> IF i < last THEN bs[i] ELSE IF i = last THEN 1 ELSE 0]

\* The f64 nearest to (bs + fraction) * 2^e, where bs starts with 1 and
\* sticky tells whether a non-zero fraction below the last bit was dropped;
\* with sticky, bs holds at least Precision + 2 bits.
round(bs, e, sticky) ==
    IF Len(bs) <= Precision
    THEN [m |-> bs \o zeros(Precision - Len(bs)), e |-> e - (Precision - Len(bs))]
    ELSE LET keep == SubSeq(bs, 1, Precision)
             guard == bs[Precision + 1]
             rest == sticky \/ \E i \in (Precision + 2)..Len(bs) : bs[i] = 1
             up == guard = 1 /\ (rest \/ keep[Precision] = 1)
             kept == IF up THEN increment(keep) ELSE keep
             e1 == e + (Len(bs) - Precision)
         IN  IF Len(kept) > Precision
             THEN [m |-> SubSeq(kept, 1, Precision), e |-> e1 + 1]
             ELSE [m |-> kept, e |-> e1]

\* usize as f64
f64_from_usize(n) == IF n = 0 THEN f64_zero ELSE round(bits_of(n), 0, FALSE)

\* Long division: the next k limbs of the quotient of r / d after the point,
\* for a remainder r < d.
RECURSIVE quotient_limbs(_, _, _)
quotient_limbs(r, d, k) ==
    IF k = 0 THEN <<>>
    ELSE <<(r * Base) \div d>> \o quotient_limbs((r * Base) % d, d, k - 1)

\* The remainder that long division leaves after k limbs.
RECURSIVE remainder_after(_, _, _)
remainder_after(r, d, k) ==
    IF k = 0 THEN r ELSE remainder_after((r * Base) % d, d, k - 1)

\* n as f64 / d as f64, for natural numbers n and d < 2^18: the quotient
\* is taken to 6 limbs after the point, which leaves more than
\* Precision + 2 significant bits as d < Base. 0.0 / 0.0 is NaN and a
\* positive number over 0.0 is infinity.
f64_div(n, d) ==
    IF d = 0 THEN IF n = 0 THEN f64_nan ELSE f64_infinity
    ELSE IF n = 0 THEN f64_zero
    ELSE round(strip(bits_of(n \div d) \o bits_of_limbs(quotient_limbs(n % d, d, 6))),
               0 - 6 * LimbBits,
               remainder_after(n % d, d, 6) # 0)

\* The limbs of ls * x + carry, for a natural number x < Base.
RECURSIVE limbs_times(_, _, _)
limbs_times(ls, x, carry) ==
    IF ls = <<>> THEN IF carry = 0 THEN <<>> ELSE <<carry>>
    ELSE LET t == ls[Len(ls)] * x + carry
         IN  Append(limbs_times(SubSeq(ls, 1, Len(ls) - 1), x, t \div Base), t % Base)

\* a * (x as f64), for an f64 a and a natural number x < Base.
f64_mul(a, x) ==
    IF a = f64_nan \/ (a = f64_infinity /\ x = 0) THEN f64_nan
    ELSE IF a = f64_infinity THEN f64_infinity
    ELSE IF a.m = <<>> \/ x = 0 THEN f64_zero
    ELSE round(strip(bits_of_limbs(limbs_times(limbs_of(a.m), x, 0))), a.e, FALSE)

\* The limbs of as + bs + carry, for limb sequences of equal length.
RECURSIVE limbs_plus(_, _, _)
limbs_plus(as, bs, carry) ==
    IF as = <<>> THEN IF carry = 0 THEN <<>> ELSE <<carry>>
    ELSE LET t == as[Len(as)] + bs[Len(bs)] + carry
         IN  Append(limbs_plus(SubSeq(as, 1, Len(as) - 1), SubSeq(bs, 1, Len(bs) - 1),
                               t \div Base),
                    t % Base)

\* a + (n as f64), for an f64 a and a natural number n.
f64_add(a, n) ==
    IF a.m = <<>> THEN f64_from_usize(n)
    ELSE IF n = 0 THEN a
    ELSE LET e == IF a.e < 0 THEN a.e ELSE 0
             as == a.m \o zeros(a.e - e)
             ns == bits_of(n) \o zeros(0 - e)
             len == IF Len(as) > Len(ns) THEN Len(as) ELSE Len(ns)
         IN  round(strip(bits_of_limbs(
                        limbs_plus(limbs_of(zeros(len - Len(as)) \o as),
                                   limbs_of(zeros(len - Len(ns)) \o ns), 0))),
                   e, FALSE)

\* a + b, for two f64 that are not negative.
f64_sum(a, b) ==
    IF a = f64_nan \/ b = f64_nan THEN f64_nan
    ELSE IF a = f64_infinity \/ b = f64_infinity THEN f64_infinity
    ELSE IF a.m = <<>> THEN b
    ELSE IF b.m = <<>> THEN a
    ELSE LET e == IF a.e < b.e THEN a.e ELSE b.e
             as == a.m \o zeros(a.e - e)
             bs == b.m \o zeros(b.e - e)
             len == IF Len(as) > Len(bs) THEN Len(as) ELSE Len(bs)
         IN  round(strip(bits_of_limbs(
                        limbs_plus(limbs_of(zeros(len - Len(as)) \o as),
                                   limbs_of(zeros(len - Len(bs)) \o bs), 0))),
                   e, FALSE)

\* `as usize` of an f64 below 2^31: the integer part.
as_usize(a) ==
    IF a.m = <<>> \/ Len(a.m) + a.e <= 0 THEN 0
    ELSE IF a.e >= 0 THEN nat_of(a.m \o zeros(a.e))
    ELSE nat_of(SubSeq(a.m, 1, Len(a.m) + a.e))

\* a <= (n as f64)
f64_le(a, n) == as_usize(a) < n \/ a = f64_from_usize(n)

\* (n as f64) <= a
f64_ge(a, n) == as_usize(a) >= n

----------------------------------------------------------------------------
(* src/src/binary.rs                                                       *)

pow2(n) == 2 ^ n

\* reversed_bits_to_int: the fold over the bits, leftmost least significant.
RECURSIVE fold_bits(_, _, _, _)
fold_bits(bs, i, acc, a) ==
    IF i > Len(bs) THEN acc
    ELSE fold_bits(bs, i + 1, IF bs[i] THEN acc + a ELSE acc, 2 * a)

reversed_bits_to_int(bs) == fold_bits(bs, 1, 0, 1)

\* reversed_bits_to_frac for the range start..=end of natural numbers.
reversed_bits_to_frac(start, end, bs) ==
    IF Len(bs) = 0
    THEN f64_from_usize(start)
    ELSE f64_add(f64_mul(f64_div(end - start, pow2(Len(bs)) - 1),
                         reversed_bits_to_int(bs)),
                 start)

----------------------------------------------------------------------------
(* owm-problem/src/encoding.rs: the Decoder.                               *)

RECURSIVE ilog2(_)
ilog2(x) == IF x < 2 THEN 0 ELSE 1 + ilog2(x \div 2)

\* The number of bits of x itself, not of the x values 0..x-1.
bits_for_the_value(x) ==
    IF x = 0 THEN 0
    ELSE IF x = 1 THEN 1
    ELSE ilog2(x) + 1

bits_for(x) ==
    IF x = 0 THEN 0
    ELSE IF x = 1 THEN 1
    ELSE ilog2(x - 1) + 1

\* (x as f64 / 128.0).ceil() as usize is exact: the division is by a power
\* of two.
reduced_bits_for(x) == bits_for(div_ceil(x, 128))

\* A Range<usize>, end excluded, and the slice of xs it selects.
Range(start, end) == [start |-> start, end |-> end]

slice(xs, range) == SubSeq(xs, range.start + 1, range.end)

\* Decoder::new. A ToFracLE<f64> is the pair of the bounds of its range; its
\* number of bits is the length of the bit range it is given.
Decoder(smallest, largest, c, n) ==
    LET x_max == saturating_sub(c.width, smallest.width)
        y_max == saturating_sub(c.height, smallest.height)
        bits_per_x == reduced_bits_for(x_max)
        bits_per_y == reduced_bits_for(y_max)
        bits_per_width == reduced_bits_for(largest.width - smallest.width)
        bits_per_height == reduced_bits_for(largest.height - smallest.height)
    IN  [max_size |-> largest,
         container |-> c,
         count |-> n,
         x_decoder |-> <<0, x_max>>,
         y_decoder |-> <<0, y_max>>,
         width_decoder |-> <<smallest.width, largest.width>>,
         height_decoder |-> <<smallest.height, largest.height>>,
         x_bits_range |-> Range(0, bits_per_x),
         y_bits_range |-> Range(bits_per_x, bits_per_x + bits_per_y),
         width_bits_range |-> Range(bits_per_x + bits_per_y,
                                    bits_per_x + bits_per_y + bits_per_width),
         height_bits_range |-> Range(bits_per_x + bits_per_y + bits_per_width,
                                     bits_per_x + bits_per_y + bits_per_width
                                         + bits_per_height)]

bits_per_rect(d) == d.height_bits_range.end

bits(d) == bits_per_rect(d) * d.count

\* A field decoder whose range starts at 0 whatever its lower bound.
decode_from_zero(decoder, bs) == as_usize(reversed_bits_to_frac(0, decoder[2], bs))

\* decoder.decode(bits) as usize
decode(decoder, bs) == as_usize(reversed_bits_to_frac(decoder[1], decoder[2], bs))

\* The closure of decode2 that decodes the bits xs of one rectangle.
decode_rect(d, xs) ==
    Rect(decode(d.x_decoder, slice(xs, d.x_bits_range)),
         decode(d.y_decoder, slice(xs, d.y_bits_range)),
         decode(d.width_decoder, slice(xs, d.width_bits_range)),
         decode(d.height_decoder, slice(xs, d.height_bits_range)))

\* The rectangles of one row of bits, before the passes of decode2.
decode_fields(d, bs) ==
    [i \in 1..d.count |->
        decode_rect(d, SubSeq(bs, (i - 1) * bits_per_rect(d) + 1, i * bits_per_rect(d)))]

----------------------------------------------------------------------------------------------------------------------------------------
(* The objectives (src/src/objective, owm-problem/src/objective). A usize  *)
(* cast to f64 is kept as the natural number it is: every integer the      *)
(* objectives meet is far below 2^53, so that the cast and the sums of     *)
(* such numbers are exact. Rounding happens in the divisions.              *)

Pos(x, y) == [x |-> x, y |-> y]

\* Pos::dist, the manhattan distance.
dist(p, other) ==
    (IF p.x > other.x THEN p.x - other.x ELSE other.x - p.x)
        + (IF p.y > other.y THEN p.y - other.y ELSE other.y - p.y)

\* Rect::top_left, top_right, bottom_left, bottom_right
top_left(r) == Pos(left(r), top(r))

top_right(r) == Pos(right(r), top(r))

bottom_left(r) == Pos(left(r), bottom(r))

bottom_right(r) == Pos(right(r), bottom(r))

\* Iterator::sum over a sequence of numbers.
RECURSIVE sum_of(_)
sum_of(xs) == IF xs = <<>> THEN 0 ELSE xs[1] + sum_of(Tail(xs))

\* PlaceAdjacentClose::new; worst_case is the field of the struct.
PlaceAdjacentClose(c, count) ==
    [worst_case |-> saturating_sub(count, 1) * dist(Pos(1, 1), Pos(c.width, c.height - 1))]

\* The least of the eight corner distances that evaluate compares.
corner_distance(rect, other) ==
    min_or({dist(top_left(rect), top_right(other)),
            dist(top_left(rect), bottom_left(other)),
            dist(top_right(rect), top_left(other)),
            dist(top_right(rect), bottom_right(other)),
            dist(bottom_left(rect), top_left(other)),
            dist(bottom_left(rect), bottom_right(other)),
            dist(bottom_right(rect), top_right(other)),
            dist(bottom_right(rect), bottom_left(other))}, 0)

\* PlaceAdjacentClose::evaluate
PlaceAdjacentClose_evaluate(self, rs) ==
    IF Len(rs) < 2 THEN f64_zero
    ELSE f64_div(sum_of([i \in 1..(Len(rs) - 1) |-> corner_distance(rs[i], rs[i + 1])]),
                 self.worst_case)

\* MinimizeGaps::new
MinimizeGaps(c) == [area |-> area(c), worst_case |-> area(c) - 1]

\* MinimizeGaps::evaluate
MinimizeGaps_evaluate(self, rs) ==
    IF rs = <<>> THEN f64_from_usize(1)
    ELSE f64_div(self.area - covered_area(rs), self.worst_case)

\* The first n items of ratios.iter().chain(repeat(last)).
chain_repeat(ratios, last, n) ==
    [i \in 1..n |-> IF i <= Len(ratios) THEN ratios[i] ELSE last]

\* sorted_unstable_by(|x, y| y.partial_cmp(x).unwrap()): descending.
sorted_descending(xs) ==
    CHOOSE s \in [DOMAIN xs -> {xs[i] : i \in DOMAIN xs}] :
        /\ \A i \in 1..(Len(xs) - 1) : s[i] >= s[i + 1]
        /\ \A v \in {xs[i] : i \in DOMAIN xs} :
            Cardinality({i \in DOMAIN xs : s[i] = v})
                = Cardinality({i \in DOMAIN xs : xs[i] = v})

\* MaintainAreaRatios::_evaluate: the windows of the areas zipped with the
\* ratios. The ratios of the model are whole numbers, so every term is one.
_evaluate(ratios, areas) ==
    sum_of([i \in 1..min(Len(areas) - 1, Len(ratios)) |->
                IF ratios[i] * areas[i + 1] >= areas[i]
                THEN ratios[i] * areas[i + 1] - areas[i]
                ELSE areas[i] - ratios[i] * areas[i + 1]])

\* MaintainAreaRatios::new
MaintainAreaRatios(ratios, largest, count) ==
    [ratios |-> ratios,
     worst_case |->
        IF ratios # <<>> /\ count > 1
        THEN _evaluate(chain_repeat(sorted_descending(ratios), ratios[Len(ratios)], count),
                       [i \in 1..count |-> IF i = 1 THEN 1 ELSE area(largest)])
        ELSE 0]

\* MaintainAreaRatios::evaluate
MaintainAreaRatios_evaluate(self, rs) ==
    IF self.worst_case = 0 THEN f64_zero
    ELSE f64_div(_evaluate(chain_repeat(self.ratios, self.ratios[Len(self.ratios)], Len(rs)),
                           [i \in DOMAIN rs |-> area(rs[i])]),
                 self.worst_case)

\* MinimizeOverlap::new(container, count).evaluate(rects)
MinimizeOverlap_evaluate(c, count, rs) ==
    IF Len(rs) < 2 THEN f64_zero
    ELSE f64_div(obscured_area(rs), saturating_sub(count, 1) * area(c))

\* PlaceInReadingOrder::new(count).evaluate(rects)
PlaceInReadingOrder_evaluate(count, rs) ==
    IF Len(rs) < 2 THEN f64_zero
    ELSE f64_div(Cardinality({i \in 1..(Len(rs) - 1) :
                                \/ top(rs[i + 1]) < top(rs[i])
                                \/ left(rs[i + 1]) < left(rs[i])}),
                 saturating_sub(count, 1))

\* Rect::center
center(r) == Pos(left(r) + r.width \div 2, top(r) + r.height \div 2)

\* CenterMain::new(container).evaluate(rects)
CenterMain_evaluate(c, rs) ==
    IF rs = <<>> THEN f64_zero
    ELSE f64_div(dist(center(rs[1]), Pos(c.width \div 2, c.height \div 2)),
                 max(dist(Pos(c.width \div 2, c.height \div 2), Pos(0, 0)),
                     dist(Pos(c.width \div 2, c.height \div 2), Pos(c.width, c.height))))

\* MaintainAspectRatios::new(ratios, max_size, count).evaluate(rects) for an
\* empty list of ratios, where worst_case is 0.0 and evaluate returns 0.0.
\* The operator is not defined for other lists.
MaintainAspectRatios_evaluate(ratios, count, rs) ==
    CASE ratios = <<>> -> f64_zero

\* usize::abs_diff
abs_diff(a, b) == IF a < b THEN b - a ELSE a - b

\* Rect::diff: the Manhattan distance in (x, y, width, height).
diff(r, other) ==
    abs_diff(r.x, other.x) + abs_diff(r.y, other.y)
        + abs_diff(r.width, other.width) + abs_diff(r.height, other.height)

\* The extreme rectangles without the one in the bottom-right corner.
extreme_rects_without_last(c) ==
    {Rect(0, 0, 1, 1), Rect(0, 0, c.width, 1), Rect(0, 0, 1, c.height),
     Rect(0, 0, c.width, c.height), Rect(c.width - 1, 0, 1, 1),
     Rect(c.width - 1, 0, 1, c.height), Rect(0, c.height - 1, 1, 1),
     Rect(0, c.height - 1, c.width, 1)}

\* The extreme rectangles of MaximizeConsistency::new.
extreme_rects(c) ==
    {Rect(0, 0, 1, 1), Rect(0, 0, c.width, 1), Rect(0, 0, 1, c.height),
     Rect(0, 0, c.width, c.height), Rect(c.width - 1, 0, 1, 1),
     Rect(c.width - 1, 0, 1, c.height), Rect(0, c.height - 1, 1, 1),
     Rect(0, c.height - 1, c.width, 1), Rect(c.width - 1, c.height - 1, 1, 1)}

\* MaximizeConsistency::new(container, previous_layout)
MaximizeConsistency(c, prev) ==
    [previous_layout |-> prev,
     worst_case |->
        sum_of([i \in DOMAIN prev |->
                    CHOOSE d \in {diff(prev[i], o) : o \in extreme_rects(c)} :
                        \A o \in extreme_rects(c) : diff(prev[i], o) <= d])]

\* MaximizeConsistency::evaluate: zip stops at the shorter sequence.
MaximizeConsistency_evaluate(self, rs) ==
    IF self.worst_case = 0 THEN f64_zero
    ELSE f64_div(sum_of([i \in 1..min(Len(rs), Len(self.previous_layout)) |->
                            diff(rs[i], self.previous_layout[i])]),
                 self.worst_case)

\* Problem::new(weights, area_ratios, aspect_ratios, max_size, container,
\* prev_layout).evaluate(rects), with count = prev_layout.len() + 1.
Problem_evaluate(w, ratios, aspect_ratios, largest, c, prev, rs) ==
    f64_sum(f64_sum(f64_sum(f64_sum(f64_sum(f64_sum(f64_sum(
        IF w.gaps > 0
        THEN f64_mul(MinimizeGaps_evaluate(MinimizeGaps(c), rs), w.gaps)
        ELSE f64_zero,
        IF w.overlap > 0
        THEN f64_mul(MinimizeOverlap_evaluate(c, Len(prev) + 1, rs), w.overlap)
        ELSE f64_zero),
        IF w.area_ratios > 0
        THEN f64_mul(MaintainAreaRatios_evaluate(
                        MaintainAreaRatios(ratios, largest, Len(prev) + 1), rs),
                     w.area_ratios)
        ELSE f64_zero),
        IF w.aspect_ratios > 0
        THEN f64_mul(MaintainAspectRatios_evaluate(aspect_ratios, Len(prev) + 1, rs),
                     w.aspect_ratios)
        ELSE f64_zero),
        IF w.adjacent_close > 0
        THEN f64_mul(PlaceAdjacentClose_evaluate(
                        PlaceAdjacentClose(c, Len(prev) + 1), rs),
                     w.adjacent_close)
        ELSE f64_zero),
        IF w.reading_order > 0
        THEN f64_mul(PlaceInReadingOrder_evaluate(Len(prev) + 1, rs), w.reading_order)
        ELSE f64_zero),
        IF w.center_main > 0
        THEN f64_mul(CenterMain_evaluate(c, rs), w.center_main)
        ELSE f64_zero),
        IF w.consistency > 0
        THEN f64_mul(MaximizeConsistency_evaluate(MaximizeConsistency(c, prev), rs),
                     w.consistency)
        ELSE f64_zero)

----------------
(* src/owm-problem/src/derive.rs: the bounded numeric types Weight,        *)
(* AreaRatio and AspectRatio. An f64 that may be negative is a record of   *)
(* its sign and its magnitude.                                             *)

Signed(negative, magnitude) == [neg |-> negative, abs |-> magnitude]

\* 2^k as f64, for an exponent of a normal number.
f64_pow2(k) == [m |-> <<1>> \o zeros(Precision - 1), e |-> k - (Precision - 1)]

\* The order of two magnitudes that are neither NaN nor infinite.
magnitude_cmp(a, b) ==
    IF a = b THEN "Equal"
    ELSE IF a.m = <<>> THEN "Less"
    ELSE IF b.m = <<>> THEN "Greater"
    ELSE IF a.e # b.e THEN (IF a.e < b.e THEN "Less" ELSE "Greater")
    ELSE IF nat_of(SubSeq(a.m, 1, 26)) # nat_of(SubSeq(b.m, 1, 26))
    THEN (IF nat_of(SubSeq(a.m, 1, 26)) < nat_of(SubSeq(b.m, 1, 26))
          THEN "Less" ELSE "Greater")
    ELSE IF nat_of(SubSeq(a.m, 27, Precision)) < nat_of(SubSeq(b.m, 27, Precision))
    THEN "Less" ELSE "Greater"

reverse(ordering) ==
    CASE ordering = "Less" -> "Greater"
      [] ordering = "Greater" -> "Less"
      [] OTHER -> ordering

\* f64::partial_cmp, as derived for the wrapper types: "None" when a side is
\* NaN, and -0.0 equal to 0.0.
partial_cmp(a, b) ==
    IF a.abs = f64_nan \/ b.abs = f64_nan THEN "None"
    ELSE IF a.abs = f64_zero /\ b.abs = f64_zero THEN "Equal"
    ELSE IF a.neg # b.neg THEN (IF a.neg THEN "Less" ELSE "Greater")
    ELSE LET ordering ==
                IF a.abs = b.abs THEN "Equal"
                ELSE IF a.abs = f64_infinity THEN "Greater"
                ELSE IF b.abs = f64_infinity THEN "Less"
                ELSE magnitude_cmp(a.abs, b.abs)
         IN  IF a.neg THEN reverse(ordering) ELSE ordering

\* f64::EPSILON
EPSILON == f64_pow2(0 - 52)

\* LowerBounded::min_value of Weight, AreaRatio and AspectRatio
min_value(type) ==
    CASE type = "Weight" -> Signed(FALSE, f64_zero)
      [] type = "AreaRatio" -> Signed(FALSE, f64_from_usize(1))
      [] type = "AspectRatio" -> Signed(FALSE, EPSILON)

Ok(v) == [ok |-> TRUE, error |-> "", value |-> v]

Err(kind, v) == [ok |-> FALSE, error |-> kind, value |-> v]

\* new of _derive_new_from_lower_bounded_partial_ord
new(type, v) ==
    CASE partial_cmp(v, min_value(type)) = "None" -> Err("IsNan", v)
      [] partial_cmp(v, min_value(type)) = "Less" -> Err("TooLow", v)
      [] OTHER -> Ok(v)

----------------
(* Inputs: the rectangles of ContainedRects (src/src/testing.rs).          *)

Sizes == {Size(w, h) : w \in 1..MaxWidth, h \in 1..MaxHeight}

ContainedRectSet(c) ==
    {Rect(p[1], p[2], p[3], p[4]) :
        p \in {q \in (0..(c.width - 1)) \X (0..(c.height - 1))
                      \X (1..c.width) \X (1..c.height) :
                 q[1] + q[3] <= c.width /\ q[2] + q[4] <= c.height}}

ContainedRects(c) == UNION {[1..n -> ContainedRectSet(c)] : n \in 0..MaxRects}

\* Rectangles with the top-left corner inside the container that may reach
\* past its right and bottom edges, as Decoder::decode2 hands them to
\* trim_outside.
OutsideRectSet(c) ==
    {Rect(p[1], p[2], p[3], p[4]) :
        p \in (0..(c.width - 1)) \X (0..(c.height - 1))
                \X (1..(c.width + 1)) \X (1..(c.height + 1))}

OutsideRects(c) == UNION {[1..n -> OutsideRectSet(c)] : n \in 0..MaxTrimRects}

\* RemoveGapsArgs: max_size between the largest rectangle and the container.
MaxSizes(c, rs) ==
    {s \in Sizes :
        /\ s.width <= c.width /\ s.height <= c.height
        /\ \A i \in DOMAIN rs : rs[i].width <= s.width /\ rs[i].height <= s.height}

\* Arguments larger than the exhaustive ones: the fixture of the test
\* remove_gaps_expands_at_same_rate, four rectangles of which one spans the
\* container's width, and a max_size well inside the container.
RemoveGapsFixtures ==
    { [container |-> Size(10, 10), max_size |-> Size(10, 10),
       rects |-> <<Rect(2, 2, 6, 1), Rect(2, 7, 1, 1), Rect(7, 7, 1, 1)>>],
      [container |-> Size(4, 4), max_size |-> Size(4, 4),
       rects |-> <<Rect(2, 3, 2, 1), Rect(0, 0, 1, 3), Rect(3, 0, 1, 1),
                   Rect(0, 2, 4, 2)>>],
      [container |-> Size(6, 6), max_size |-> Size(3, 3),
       rects |-> <<Rect(2, 2, 1, 1), Rect(0, 5, 2, 1)>>] }

\* Arguments of overlap_borders beyond the exhaustive ones: the fixture
\* of the tests overlap_borders_expands_evenly and
\* overlap_borders_breaks_ties_in_favor_of_first, and the same rectangles with
\* the one that spans the container's width between the other two.
OverlapBordersFixtures ==
    { [border_thickness |-> t, container |-> Size(10, 10), rects |-> rs] :
        t \in 1..2,
        rs \in { <<Rect(0, 0, 10, 5), Rect(0, 5, 5, 5), Rect(5, 5, 5, 5)>>,
                 <<Rect(0, 5, 5, 5), Rect(0, 0, 10, 5), Rect(5, 5, 5, 5)>> } }
    \cup
    \* the strategy of overlap_borders_does_not_expand_past_container:
    \* thicknesses 1..=32, here with two rectangles side by side
    { [border_thickness |-> t, container |-> Size(4, 2),
       rects |-> <<Rect(0, 0, 1, 2), Rect(1, 0, 3, 2)>>] : t \in {3, 4, 32} }

------------------------------------------------------------\* The configurations of the decoder: min_size <= max_size <= container, with
\* bit-vectors of at most MaxPointBits bits.
DecoderConfigs ==
    {a \in {[container |-> c, min_size |-> lo, max_size |-> hi, count |-> n] :
                c \in Sizes, lo \in Sizes, hi \in Sizes, n \in 0..MaxCount} :
        /\ a.min_size.width <= a.max_size.width
        /\ a.min_size.height <= a.max_size.height
        /\ a.max_size.width <= a.container.width
        /\ a.max_size.height <= a.container.height
        /\ bits(Decoder(a.min_size, a.max_size, a.container, a.count)) <= MaxPointBits}

\* Configurations whose fields span more than 512 values, so that they take
\* three bits and the quotient (end - start) / 7 is rounded.
DecoderFixtures ==
    {[container |-> Size(900, 1), min_size |-> Size(1, 1),
      max_size |-> Size(900, 1), count |-> 1],
     [container |-> Size(900, 600), min_size |-> Size(100, 100),
      max_size |-> Size(900, 600), count |-> 1],
     [container |-> Size(900, 1), min_size |-> Size(300, 1),
      max_size |-> Size(900, 1), count |-> 2]}

\* The ranges given to reversed_bits_to_frac: every small one, and ranges
\* whose quotient by 2^bits - 1 is rounded.
FieldRanges ==
    {<<start, start + span>> : start \in 0..MaxStart, span \in 0..MaxSpan}
        \cup {<<0, 29>>, <<1, 30>>, <<0, 31>>, <<0, 899>>}

\* The containers and rectangles the objectives are evaluated on: the
\* contained rectangles of the smallest containers, and the layouts of the
\* tests of the objectives.
ObjectiveInputs ==
    UNION {{[container |-> c, rects |-> rs] : rs \in ContainedRects(c)} :
                c \in {Size(1, 1), Size(1, 2), Size(2, 1), Size(2, 2)}}
        \cup {[container |-> Size(10, 10),
               rects |-> <<Rect(0, 0, 10, 5), Rect(0, 5, 5, 5), Rect(5, 5, 5, 5)>>],
              [container |-> Size(10, 10),
               rects |-> <<Rect(0, 0, 1, 1), Rect(9, 9, 1, 1), Rect(0, 0, 1, 1)>>],
              [container |-> Size(10, 10),
               rects |-> <<Rect(0, 0, 5, 5), Rect(0, 5, 5, 5), Rect(5, 5, 5, 5)>>],
              [container |-> Size(2, 2),
               rects |-> <<Rect(0, 0, 2, 2), Rect(0, 0, 1, 1), Rect(0, 0, 2, 2)>>]}

\* The lists of area ratios: whole numbers from 1 on.
AreaRatioLists == UNION {[1..n -> 1..MaxRatio] : n \in 0..MaxRatios}

\* struct Weights
Objectives ==
    {"gaps", "overlap", "area_ratios", "aspect_ratios", "adjacent_close",
     "reading_order", "center_main", "consistency"}

\* The weights: whole numbers from 0 on; at most two objectives are weighted,
\* or all of them are, equally.
WeightChoices ==
    {w \in [Objectives -> 0..MaxWeight] :
        \/ Cardinality({o \in Objectives : w[o] > 0}) <= 1
        \/ /\ Cardinality({o \in Objectives : w[o] > 0}) = 2
           /\ \A o \in Objectives : w[o] <= 1
        \/ \A o, q \in Objectives : w[o] = w[q]}

\* The previous layouts of a problem whose layouts have the rectangles of rs:
\* one rectangle fewer, taken from rs.
PreviousLayouts(rs) ==
    {SubSeq(rs, 1, Len(rs) - 1), SubSeq(rs, 2, Len(rs))}

\* The previous layouts the consistency objective is built from: every
\* sequence inside the container that is shorter than rs, on the smallest
\* containers.
ShorterLayouts(c, rs) ==
    IF area(c) <= 4
    THEN {prev \in ContainedRects(c) : Len(prev) < Len(rs)}
    ELSE IF rs = <<>> THEN {} ELSE PreviousLayouts(rs)

----------------
(* src/src/lib.rs: LayoutGen, the layout cache.                            *)

GenContainers == {Size(MaxWidth, MaxHeight)}

\* type Key = (Size, usize)
Keys == GenContainers \X (0..MaxCount)

\* A cache entry: absent from the map, or an Arc<OnceCell<Vec<Rect>>> that is
\* unset or holds a layout.
Vacant == [present |-> FALSE, set |-> FALSE, layout |-> <<>>]

EmptyCell == [present |-> TRUE, set |-> FALSE, layout |-> <<>>]

FullCell(layout) == [present |-> TRUE, set |-> TRUE, layout |-> layout]

\* The callbacks _layout passes around: the caller's callback of the layout()
\* call number id, and the closure of the Vacant branch, which spawns the
\* search for `key` and hands its result to `callback`.
UserCallback(id) == [kind |-> "user", id |-> id]

SpawnSearch(key, callback) == [kind |-> "spawn", key |-> key, callback |-> callback]

\* The thread spawned by the closure of the Vacant branch.
Worker(key, prev_layout, callback) ==
    [kind |-> "worker", key |-> key, prev_layout |-> prev_layout, pc |-> "search",
     layout |-> <<>>, callback |-> callback]

\* The thread spawned by the Occupied branch for a cell that is not yet set.
Waiter(key, callback) ==
    [kind |-> "waiter", key |-> key, prev_layout |-> <<>>, pc |-> "wait",
     layout |-> <<>>, callback |-> callback]

\* RawLayoutGen::layout, searching for as many rectangles as prev_layout has.
raw_layout_of_previous_count(c, prev_layout) ==
    {[i \in 1..Len(prev_layout) |-> r] :
        r \in {Rect(0, 0, c.width, c.height), Rect(0, 0, 1, 1)}}

\* RawLayoutGen::layout: the search is an external optimizer; its result is
\* some sequence of prev_layout.len() + 1 rectangles inside the container.
raw_layout(c, prev_layout) ==
    {[i \in 1..(Len(prev_layout) + 1) |-> r] :
        r \in {Rect(0, 0, c.width, c.height), Rect(0, 0, 1, 1)}}

\* The LayoutGen state that _layout and the threads act on, as one record.
GenState ==
    [cache |-> cache, threads |-> threads, delivered |-> delivered,
     spawned |-> spawned, writes |-> writes, prevs |-> prevs, inserted |-> inserted]

\* invoke, with the closure of the Vacant branch not handing prev_layout on.
invoke_without_prev_layout(st, callback, layout) ==
    IF callback.kind = "user"
    THEN [st EXCEPT !.delivered[callback.id] = Append(@, layout)]
    ELSE [st EXCEPT !.threads = @ \cup {Worker(callback.key, <<>>, callback.callback)},
                    !.spawned[callback.key] = @ + 1,
                    !.prevs[callback.key] = Append(@, <<>>)]

\* (callback)(layout): the caller's callback receives the layout; the closure
\* of the Vacant branch spawns the worker thread of its key.
invoke(st, callback, layout) ==
    IF callback.kind = "user"
    THEN [st EXCEPT !.delivered[callback.id] = Append(@, layout)]
    ELSE [st EXCEPT !.threads = @ \cup {Worker(callback.key, layout, callback.callback)},
                    !.spawned[callback.key] = @ + 1,
                    !.prevs[callback.key] = Append(@, layout)]

RECURSIVE _layout(_, _, _, _)

\* _layout, taking a cell that is not yet set for a vacant entry.
_layout_ignoring_placeholder(st, c, count, callback) ==
    LET key == <<c, count>>
    IN  IF count = 0
        THEN LET cell == IF st.cache[key].set THEN st.cache[key] ELSE FullCell(<<>>)
                 st1 == [st EXCEPT !.cache[key] = cell,
                                   !.inserted = IF st.cache[key].present
                                                THEN @ ELSE @ \cup {key},
                                   !.writes[key] = IF st.cache[key].set THEN @ ELSE @ + 1]
             IN  invoke(st1, callback, cell.layout)
        ELSE IF ~st.cache[key].set
        THEN _layout([st EXCEPT !.cache[key] = EmptyCell, !.inserted = @ \cup {key}],
                     c, count - 1, SpawnSearch(key, callback))
        ELSE invoke(st, callback, st.cache[key].layout)

\* _layout, with the Occupied branch spawning no thread for an unset cell.
_layout_without_waiter(st, c, count, callback) ==
    LET key == <<c, count>>
    IN  IF count = 0
        THEN LET cell == IF st.cache[key].set THEN st.cache[key] ELSE FullCell(<<>>)
                 st1 == [st EXCEPT !.cache[key] = cell,
                                   !.inserted = IF st.cache[key].present
                                                THEN @ ELSE @ \cup {key},
                                   !.writes[key] = IF st.cache[key].set THEN @ ELSE @ + 1]
             IN  invoke(st1, callback, cell.layout)
        ELSE IF ~st.cache[key].present
        THEN _layout([st EXCEPT !.cache[key] = EmptyCell, !.inserted = @ \cup {key}],
                     c, count - 1, SpawnSearch(key, callback))
        ELSE IF st.cache[key].set
        THEN invoke(st, callback, st.cache[key].layout)
        ELSE st

\* _layout, answering a request for an unset cell with the cell as it is.
_layout_answering_unset_cell(st, c, count, callback) ==
    LET key == <<c, count>>
    IN  IF count = 0
        THEN LET cell == IF st.cache[key].set THEN st.cache[key] ELSE FullCell(<<>>)
                 st1 == [st EXCEPT !.cache[key] = cell,
                                   !.inserted = IF st.cache[key].present
                                                THEN @ ELSE @ \cup {key},
                                   !.writes[key] = IF st.cache[key].set THEN @ ELSE @ + 1]
             IN  invoke(st1, callback, cell.layout)
        ELSE IF ~st.cache[key].present
        THEN _layout([st EXCEPT !.cache[key] = EmptyCell, !.inserted = @ \cup {key}],
                     c, count - 1, SpawnSearch(key, callback))
        ELSE invoke(st, callback, st.cache[key].layout)

\* LayoutGen::_layout
_layout(st, c, count, callback) ==
    LET key == <<c, count>>
    IN  IF count = 0
        THEN LET cell == IF st.cache[key].set THEN st.cache[key] ELSE FullCell(<<>>)
                 st1 == [st EXCEPT !.cache[key] = cell,
                                   !.inserted = IF st.cache[key].present
                                                THEN @ ELSE @ \cup {key},
                                   !.writes[key] = IF st.cache[key].set THEN @ ELSE @ + 1]
             IN  invoke(st1, callback, cell.layout)
        ELSE IF ~st.cache[key].present
        THEN _layout([st EXCEPT !.cache[key] = EmptyCell, !.inserted = @ \cup {key}],
                     c, count - 1, SpawnSearch(key, callback))
        ELSE IF st.cache[key].set
        THEN invoke(st, callback, st.cache[key].layout)
        ELSE [st EXCEPT !.threads = @ \cup {Waiter(key, callback)}]

\* try_layout, reporting every cell in the map as finished.
try_layout_without_get(c, count) ==
    LET key == <<c, count>>
    IN  IF cache[key].present
        THEN [status |-> "Finished", layout |-> cache[key].layout]
        ELSE [status |-> "NotStarted", layout |-> <<>>]

\* LayoutGen::try_layout
try_layout(c, count) ==
    LET key == <<c, count>>
    IN  IF cache[key].present
        THEN IF cache[key].set
             THEN [status |-> "Finished", layout |-> cache[key].layout]
             ELSE [status |-> "Started", layout |-> <<>>]
        ELSE [status |-> "NotStarted", layout |-> <<>>]

SetGenState(st) ==
    /\ cache' = st.cache
    /\ threads' = st.threads
    /\ delivered' = st.delivered
    /\ spawned' = st.spawned
    /\ writes' = st.writes
    /\ prevs' = st.prevs
    /\ inserted' = st.inserted

InitLayoutGen ==
    /\ cache = [k \in Keys |-> Vacant]
    /\ threads = {}
    /\ requests = <<>>
    /\ delivered = [id \in 1..MaxRequests |-> <<>>]
    /\ spawned = [k \in Keys |-> 0]
    /\ writes = [k \in Keys |-> 0]
    /\ prevs = [k \in Keys |-> <<>>]
    /\ status = [key |-> <<>>, status |-> "NotStarted", layout |-> <<>>]
    /\ inserted = {}
    /\ panicked = FALSE

\* A call of LayoutGen::layout(container, count, callback).
Layout(c, count) ==
    /\ mode = "LayoutGen"
    /\ Len(requests) < MaxRequests
    /\ requests' = Append(requests, <<c, count>>)
    /\ SetGenState(_layout(GenState, c, count, UserCallback(Len(requests) + 1)))
    /\ UNCHANGED <<status, panicked>>
    /\ UNCHANGED <<ppvars, binvars, decvars, objvars, mode>>

\* A call of LayoutGen::try_layout(container, count).
TryLayout(c, count) ==
    /\ mode = "LayoutGen"
    /\ status' = [key |-> <<c, count>>] @@ try_layout(c, count)
    /\ UNCHANGED <<cache, threads, requests, delivered, spawned, writes, prevs, inserted,
                   panicked>>
    /\ UNCHANGED <<ppvars, binvars, decvars, objvars, mode>>

\* A worker thread: `let layout = gen.layout(container, prev_layout)`.
WorkerSearch(t) ==
    /\ t.kind = "worker" /\ t.pc = "search"
    /\ \E layout \in raw_layout(t.key[1], t.prev_layout) :
        threads' = (threads \ {t}) \cup {[t EXCEPT !.pc = "insert", !.layout = layout]}
    /\ UNCHANGED <<cache, requests, delivered, spawned, writes, prevs, status, inserted,
                   panicked>>
    /\ UNCHANGED <<ppvars, binvars, decvars, objvars, mode>>

\* A worker thread: `cache_cell.try_insert(layout).expect(..)`.
WorkerInsert(t) ==
    /\ t.kind = "worker" /\ t.pc = "insert"
    /\ IF cache[t.key].set
       THEN /\ panicked' = TRUE
            /\ threads' = threads \ {t}
            /\ UNCHANGED <<cache, writes>>
       ELSE /\ cache' = [cache EXCEPT ![t.key] = FullCell(t.layout)]
            /\ writes' = [writes EXCEPT ![t.key] = @ + 1]
            /\ threads' = (threads \ {t}) \cup {[t EXCEPT !.pc = "callback"]}
            /\ UNCHANGED panicked
    /\ UNCHANGED <<requests, delivered, spawned, prevs, status, inserted>>
    /\ UNCHANGED <<ppvars, binvars, decvars, objvars, mode>>

\* A worker thread: `(callback)(layout)` with the reference try_insert returned.
WorkerCallback(t) ==
    /\ t.kind = "worker" /\ t.pc = "callback"
    /\ SetGenState(invoke([GenState EXCEPT !.threads = @ \ {t}], t.callback,
                          cache[t.key].layout))
    /\ UNCHANGED <<requests, status, panicked>>
    /\ UNCHANGED <<ppvars, binvars, decvars, objvars, mode>>

\* A waiting thread: `(callback)(cache_cell.wait())`, which blocks until the
\* cell is set.
WaiterCallback(t) ==
    /\ t.kind = "waiter"
    /\ cache[t.key].set
    /\ SetGenState(invoke([GenState EXCEPT !.threads = @ \ {t}], t.callback,
                          cache[t.key].layout))
    /\ UNCHANGED <<requests, status, panicked>>
    /\ UNCHANGED <<ppvars, binvars, decvars, objvars, mode>>

----------------------------------------------------------------------------
(* src/src/bin/owm.rs: the LayoutDemand handler and its worker threads.    *)

\* gen.layout(container, view_count) of the binary: the blocking search of
\* the layout generator, returning view_count rectangles.
gen_layout(c, view_count) ==
    {[i \in 1..view_count |-> IF i % 2 = 1 THEN odd ELSE even] :
        <<odd, even>> \in {<<Rect(0, 0, c.width, c.height), Rect(0, 0, 1, 1)>>,
                           <<Rect(0, 0, 1, 1), Rect(0, 0, c.width, c.height)>>}}

\* The requests of a cached layout, the rectangles pushed from the last to the
\* first.
push_and_commit_from_the_last(layout, serial) ==
    [i \in 1..(Len(layout) + 1) |->
        IF i <= Len(layout)
        THEN [request |-> "push_view_dimensions", rect |-> layout[Len(layout) + 1 - i],
              serial |-> serial]
        ELSE [request |-> "commit", rect |-> Rect(0, 0, 0, 0), serial |-> serial]]

\* The requests one cached layout makes on the proxy: push_view_dimensions
\* per rectangle, in order, then commit.
push_and_commit(layout, serial) ==
    [i \in 1..(Len(layout) + 1) |->
        IF i <= Len(layout)
        THEN [request |-> "push_view_dimensions", rect |-> layout[i], serial |-> serial]
        ELSE [request |-> "commit", rect |-> Rect(0, 0, 0, 0), serial |-> serial]]

InitBinary ==
    /\ CACHE = [k \in Keys |-> <<>>]
    /\ STARTED = {}
    /\ demand_threads = {}
    /\ proxy = <<>>
    /\ demands = 0
    /\ demand = <<>>
    /\ searches = [k \in Keys |-> 0]
    /\ inserts = [k \in Keys |-> 0]

\* river_layout_v3::Event::LayoutDemand for key; the serial of a demand is its
\* number. CACHE[key] is <<>> for a key not in the map and <<layout>> otherwise.
LayoutDemand(key) ==
    /\ mode = "owm"
    /\ demands < MaxDemands
    /\ demands' = demands + 1
    /\ demand' = <<key>>
    /\ IF CACHE[key] # <<>>
       THEN /\ proxy' = push_and_commit(CACHE[key][1], demands + 1)
            /\ UNCHANGED <<STARTED, demand_threads, searches>>
       ELSE /\ proxy' = <<>>
            /\ IF key \notin STARTED
               THEN /\ STARTED' = STARTED \cup {key}
                    /\ demand_threads' = demand_threads \cup
                            {[key |-> key, pc |-> "layout", layout |-> <<>>]}
                    /\ searches' = [searches EXCEPT ![key] = @ + 1]
               ELSE UNCHANGED <<STARTED, demand_threads, searches>>
    /\ UNCHANGED <<CACHE, inserts>>
    /\ UNCHANGED <<ppvars, genvars, decvars, objvars, mode>>

\* The spawned thread: `let layout = gen.layout(container, view_count)`.
DemandThreadLayout(t) ==
    /\ t.pc = "layout"
    /\ \E layout \in gen_layout(t.key[1], t.key[2]) :
        demand_threads' = (demand_threads \ {t}) \cup
                            {[t EXCEPT !.pc = "insert", !.layout = layout]}
    /\ UNCHANGED <<CACHE, STARTED, proxy, demands, demand, searches, inserts>>
    /\ UNCHANGED <<ppvars, genvars, decvars, objvars, mode>>

\* The spawned thread: `CACHE.lock().unwrap().insert(key, layout)`.
DemandThreadInsert(t) ==
    /\ t.pc = "insert"
    /\ CACHE' = [CACHE EXCEPT ![t.key] = <<t.layout>>]
    /\ inserts' = [inserts EXCEPT ![t.key] = @ + 1]
    /\ demand_threads' = (demand_threads \ {t}) \cup {[t EXCEPT !.pc = "command"]}
    /\ UNCHANGED <<STARTED, proxy, demands, demand, searches>>
    /\ UNCHANGED <<ppvars, genvars, decvars, objvars, mode>>

\* The spawned thread: the retry-layout command sent to River, and its end.
DemandThreadCommand(t) ==
    /\ t.pc = "command"
    /\ demand_threads' = demand_threads \ {t}
    /\ UNCHANGED <<CACHE, STARTED, proxy, demands, demand, searches, inserts>>
    /\ UNCHANGED <<ppvars, genvars, decvars, objvars, mode>>

\* The post-processor variables while no pass is being followed.
PostProcessorIdle ==
    /\ container = Size(1, 1)
    /\ max_size = Size(1, 1)
    /\ border_thickness = 0
    /\ rects = <<>>
    /\ freedoms = <<>>
    /\ pc = "idle"
    /\ run = 0
    /\ input = <<>>
    /\ flip_flop_args = <<>>
    /\ flip_flop_result = <<>>

DecoderIdle ==
    /\ min_size = Size(1, 1)
    /\ decoder_count = 0
    /\ point = <<>>
    /\ passes = <<>>
    /\ field_range = <<0, 0>>
    /\ field_value = <<>>

ObjectiveIdle ==
    /\ weights = <<>>
    /\ area_ratios = <<>>
    /\ previous_layout = <<>>
    /\ objective = "none"
    /\ fitness = f64_zero
    /\ covered = 0
    /\ obscured = 0
    /\ new_type = "none"
    /\ new_arg = <<>>
    /\ new_result = <<>>

\* The orchestration: the cache of LayoutGen driven by layout() calls, or the
\* handler of the binary driven by LayoutDemand events.
Init ==
    /\ mode \in {"LayoutGen", "owm"}
    /\ InitLayoutGen
    /\ InitBinary
    /\ DecoderIdle
    /\ ObjectiveIdle
    /\ PostProcessorIdle

ThreadStep ==
    \/ \E t \in threads : WorkerSearch(t)
    \/ \E t \in threads : WorkerInsert(t)
    \/ \E t \in threads : WorkerCallback(t)
    \/ \E t \in threads : WaiterCallback(t)

DemandThreadStep ==
    \/ \E t \in demand_threads : DemandThreadLayout(t)
    \/ \E t \in demand_threads : DemandThreadInsert(t)
    \/ \E t \in demand_threads : DemandThreadCommand(t)

Next ==
    \/ \E k \in Keys : Layout(k[1], k[2])
    \/ \E k \in Keys : TryLayout(k[1], k[2])
    \/ \E t \in threads : WorkerSearch(t)
    \/ \E t \in threads : WorkerInsert(t)
    \/ \E t \in threads : WorkerCallback(t)
    \/ \E t \in threads : WaiterCallback(t)
    \/ \E k \in Keys : LayoutDemand(k)
    \/ \E t \in demand_threads : DemandThreadLayout(t)
    \/ \E t \in demand_threads : DemandThreadInsert(t)
    \/ \E t \in demand_threads : DemandThreadCommand(t)

Spec == Init /\ [][Next]_vars

\* The threads the code spawns are scheduled by the operating system: a thread
\* that can take a step eventually takes one.
FairSpec == Spec /\ WF_vars(ThreadStep) /\ WF_vars(DemandThreadStep)


----------------------------------------------------------------------------
(* Properties of the orchestration.                                        *)

\* The latest layout() call was for key.
Requested(key) ==
    /\ Len(requests') = Len(requests) + 1
    /\ requests'[Len(requests')] = key

\* C1: the search for a key is started at most once and its result is written
\* at most once, in LayoutGen and in the LayoutDemand handler; a request for a
\* key that has a placeholder starts no computation.
C1_AtMostOneSearchPerKey ==
    /\ [](\A k \in Keys :
            /\ spawned[k] <= 1
            /\ writes[k] <= 1
            /\ searches[k] <= 1
            /\ inserts[k] <= 1)
    /\ [](~panicked)
    /\ [][\A k \in Keys :
            /\ (cache[k].present /\ Requested(k)) => spawned' = spawned
            /\ k \in STARTED => searches'[k] = searches[k]]_vars

\* A second layout() call for the key of the first waits on its placeholder
\* while the one search of the key runs.
C1_Witness ==
    /\ Len(requests) >= 2
    /\ requests[1] = requests[2]
    /\ requests[1][2] >= 1
    /\ spawned[requests[1]] = 1
    /\ \E t \in threads : t.kind = "worker" /\ t.key = requests[1] /\ t.pc = "insert"
    /\ \E t \in threads : t.kind = "waiter" /\ t.key = requests[1]

\* The key before key in the chain of counts.
PrevKey(key) == <<key[1], key[2] - 1>>

\* C2: a layout() call for count N puts a placeholder in place for every
\* smaller count, and the search for N starts only once the layout for N - 1
\* is finished, with exactly that layout as prev_layout.
C2_CausallyChained ==
    /\ [](\A k \in Keys : (k[2] >= 1 /\ spawned[k] >= 1) =>
            /\ cache[PrevKey(k)].set
            /\ prevs[k] = <<cache[PrevKey(k)].layout>>)
    /\ [](\A k \in Keys : (k[2] >= 1 /\ cache[k].present) =>
            /\ cache[PrevKey(k)].present
            /\ (cache[k].set => cache[PrevKey(k)].set))
    /\ [][\A k \in Keys : Requested(k) =>
            \A j \in Keys : (j[1] = k[1] /\ j[2] <= k[2]) => cache'[j].present]_vars

\* The search for count 2 runs on the finished layout of count 1.
C2_Witness ==
    \E t \in threads :
        /\ t.kind = "worker"
        /\ t.key[2] = 2
        /\ Len(t.prev_layout) = 1
        /\ t.prev_layout = cache[PrevKey(t.key)].layout

\* C3: every key a layout() call was made for is eventually finished, and the
\* callback of every layout() call is eventually invoked.
C3_EveryRequestCompletes ==
    /\ \A k \in Keys : cache[k].present ~> cache[k].set
    /\ \A id \in 1..MaxRequests : (Len(requests) >= id) ~> (Len(delivered[id]) >= 1)

\* MaxRequests layout() calls, the first for the largest count, have all been
\* answered and no thread is left.
C3_Witness ==
    /\ Len(requests) = MaxRequests
    /\ requests[1][2] = MaxCount
    /\ \A id \in 1..MaxRequests : Len(delivered[id]) = 1
    /\ threads = {}

StatusRank(s) == CASE s = "NotStarted" -> 0 [] s = "Started" -> 1 [] s = "Finished" -> 2

\* C4: the status try_layout reports for a key never goes back, is NotStarted
\* exactly for the keys no cell was inserted for, stays Finished with the same
\* layout, and a try_layout call changes neither the cache nor the threads.
C4_StatusOnlyProgresses ==
    /\ [](\A k \in Keys : (try_layout(k[1], k[2]).status = "NotStarted") <=> k \notin inserted)
    /\ [][\A k \in Keys :
            /\ StatusRank(try_layout(k[1], k[2]).status')
                    >= StatusRank(try_layout(k[1], k[2]).status)
            /\ try_layout(k[1], k[2]).status = "Finished"
                    => try_layout(k[1], k[2])' = try_layout(k[1], k[2])]_vars
    /\ [][status' # status =>
            UNCHANGED <<cache, threads, spawned, writes, inserted>>]_vars

\* try_layout has reported a key with count >= 1 as Finished.
C4_Witness ==
    /\ status.status = "Finished"
    /\ status.key # <<>>
    /\ status.key[2] >= 1
    /\ Len(status.layout) = status.key[2]

----------------------------------------------------------------------------
(* remove_gaps as a state machine: one step per iteration of its loop.     *)

InitRemoveGaps ==
    /\ mode = "remove_gaps"
    /\ InitLayoutGen
    /\ InitBinary
    /\ DecoderIdle
    /\ ObjectiveIdle
    /\ \/ /\ container \in Sizes
          /\ rects \in ContainedRects(container)
          /\ max_size \in MaxSizes(container, rects)
       \/ \E a \in RemoveGapsFixtures :
            /\ container = a.container
            /\ rects = a.rects
            /\ max_size = a.max_size
    /\ border_thickness = 0
    /\ freedoms = initial_freedoms(container, rects)
    /\ pc = "loop"
    /\ run = 1
    /\ input = rects
    /\ flip_flop_args = <<>>
    /\ flip_flop_result = <<>>

\* One iteration of the loop that finds a positive step and expands.
RemoveGapsExpand ==
    /\ pc = "loop"
    /\ \E fr \in {iteration_freedoms(max_size, container, rects, freedoms)} :
       \E largest \in {largest_safe_step(fr)} :
           /\ largest # <<>>
           /\ freedoms' = fr
           /\ IF \E i \in DOMAIN rects : Underflows(rects[i], fr[i], largest[1])
              THEN /\ pc' = "panic"
                   /\ rects' = rects
              ELSE /\ pc' = "loop"
                   /\ rects' = [i \in DOMAIN rects |->
                                    expand(rects[i], fr[i], largest[1])]
    /\ UNCHANGED <<container, max_size, border_thickness, run, input>>
    /\ UNCHANGED <<flip_flop_args, flip_flop_result>>
    /\ UNCHANGED <<genvars, binvars, decvars, objvars, mode>>

\* The iteration that finds no positive freedom and breaks out of the loop.
RemoveGapsBreak ==
    /\ pc = "loop"
    /\ \E fr \in {iteration_freedoms(max_size, container, rects, freedoms)} :
           /\ largest_safe_step(fr) = <<>>
           /\ freedoms' = fr
    /\ pc' = "done"
    /\ UNCHANGED <<container, max_size, border_thickness, rects, run, input>>
    /\ UNCHANGED <<flip_flop_args, flip_flop_result>>
    /\ UNCHANGED <<genvars, binvars, decvars, objvars, mode>>

\* remove_gaps is called again on its own output, with the same arguments.
RemoveGapsAgain ==
    /\ pc = "done"
    /\ run = 1
    /\ run' = 2
    /\ pc' = "loop"
    /\ input' = rects
    /\ freedoms' = initial_freedoms(container, rects)
    /\ UNCHANGED <<container, max_size, border_thickness, rects>>
    /\ UNCHANGED <<flip_flop_args, flip_flop_result>>
    /\ UNCHANGED <<genvars, binvars, decvars, objvars, mode>>

NextRemoveGaps == RemoveGapsExpand \/ RemoveGapsBreak \/ RemoveGapsAgain

SpecRemoveGaps == InitRemoveGaps /\ [][NextRemoveGaps]_vars

----------------------------------------------------------------------------
(* overlap_borders as a state machine: one call.                           *)

InitOverlapBorders ==
    /\ mode = "overlap_borders"
    /\ InitLayoutGen
    /\ InitBinary
    /\ DecoderIdle
    /\ ObjectiveIdle
    /\ \/ /\ container \in Sizes
          /\ rects \in ContainedRects(container)
          /\ border_thickness \in 0..MaxThickness
       \/ \E a \in OverlapBordersFixtures :
            /\ container = a.container
            /\ rects = a.rects
            /\ border_thickness = a.border_thickness
    /\ max_size = container
    /\ freedoms = <<>>
    /\ pc = "call"
    /\ run = 1
    /\ input = rects
    /\ flip_flop_args = <<>>
    /\ flip_flop_result = <<>>

\* The call overlap_borders(border_thickness, container, rects). Where an
\* expansion to the left or to the top exceeds the position, the subtraction
\* panics in a build with overflow checks and wraps in one without.
OverlapBorders ==
    /\ pc = "call"
    /\ IF \E i \in DOMAIN rects :
            LET e == expansions(border_thickness, container, rects, i)
            IN  e.left > rects[i].x \/ e.top > rects[i].y
       THEN \/ pc' = "panic" /\ rects' = rects
            \/ /\ pc' = "wrapped"
               /\ rects' = overlap_borders(border_thickness, container, rects)
       ELSE /\ pc' = "done"
            /\ rects' = overlap_borders(border_thickness, container, rects)
    /\ UNCHANGED <<container, max_size, border_thickness, freedoms, run, input>>
    /\ UNCHANGED <<flip_flop_args, flip_flop_result>>
    /\ UNCHANGED <<genvars, binvars, decvars, objvars, mode>>

NextOverlapBorders == OverlapBorders

SpecOverlapBorders == InitOverlapBorders /\ [][NextOverlapBorders]_vars

----------------------------------------------------------------------------
(* trim_outside as a state machine: one call.                              *)

InitTrimOutside ==
    /\ mode = "trim_outside"
    /\ InitLayoutGen
    /\ InitBinary
    /\ DecoderIdle
    /\ ObjectiveIdle
    /\ container \in Sizes
    /\ rects \in OutsideRects(container)
    /\ border_thickness = 0
    /\ max_size = container
    /\ freedoms = <<>>
    /\ pc = "call"
    /\ run = 1
    /\ input = rects
    /\ flip_flop_args = <<>>
    /\ flip_flop_result = <<>>

\* The call trim_outside(container, rects).
TrimOutside ==
    /\ pc = "call"
    /\ pc' = "done"
    /\ rects' = trim_outside(container, rects)
    /\ UNCHANGED <<container, max_size, border_thickness, freedoms, run, input>>
    /\ UNCHANGED <<flip_flop_args, flip_flop_result>>
    /\ UNCHANGED <<genvars, binvars, decvars, objvars, mode>>

NextTrimOutside == TrimOutside

SpecTrimOutside == InitTrimOutside /\ [][NextTrimOutside]_vars

----------------------------------------------------------------------------
(* RawLayoutGen::layout from the point the search has converged: the      *)
(* winning bit-vector is decoded by Decoder::decode2, which applies        *)
(* trim_outside and remove_gaps, and layout applies overlap_borders.       *)

InitDecode ==
    /\ mode = "decode"
    /\ InitLayoutGen
    /\ InitBinary
    /\ \E a \in DecoderConfigs \cup DecoderFixtures :
        /\ container = a.container
        /\ min_size = a.min_size
        /\ max_size = a.max_size
        /\ decoder_count = a.count
    /\ point \in [1..bits(Decoder(min_size, max_size, container, decoder_count)) -> BOOLEAN]
    /\ border_thickness \in {0, MaxThickness}
    /\ rects = <<>>
    /\ freedoms = <<>>
    /\ pc = "decode2"
    /\ run = 1
    /\ input = <<>>
    /\ flip_flop_args = <<>>
    /\ flip_flop_result = <<>>
    /\ passes = <<>>
    /\ field_range = <<0, 0>>
    /\ field_value = <<>>
    /\ ObjectiveIdle

\* decode2: the fields of every rectangle are decoded from its bits.
Decode2Fields ==
    /\ pc = "decode2"
    /\ pc' = "trim_outside"
    /\ rects' = decode_fields(Decoder(min_size, max_size, container, decoder_count), point)
    /\ input' = rects'
    /\ UNCHANGED <<container, max_size, border_thickness, freedoms, run>>
    /\ UNCHANGED <<flip_flop_args, flip_flop_result>>
    /\ UNCHANGED <<genvars, binvars, decvars, objvars, mode>>

\* decode2: trim_outside(self.container, rects). The subtraction
\* container.width - rect.x() panics when the rectangle starts past the
\* container.
Decode2TrimOutside ==
    /\ pc = "trim_outside"
    /\ IF \E i \in DOMAIN rects :
            rects[i].x > container.width \/ rects[i].y > container.height
       THEN /\ pc' = "decode2_panic"
            /\ rects' = rects
       ELSE /\ pc' = "remove_gaps"
            /\ rects' = trim_outside(container, rects)
    /\ passes' = Append(passes, "trim_outside")
    /\ UNCHANGED <<container, max_size, border_thickness, freedoms, run, input>>
    /\ UNCHANGED <<flip_flop_args, flip_flop_result>>
    /\ UNCHANGED <<genvars, binvars, min_size, decoder_count, point, field_range,
                   field_value, objvars, mode>>

\* decode2: remove_gaps(self.max_size, self.container, rects), and decode2
\* returns.
Decode2RemoveGaps ==
    /\ pc = "remove_gaps"
    /\ \E out \in {remove_gaps(max_size, container, rects)} :
        /\ pc' = IF out.underflow THEN "decode2_panic" ELSE "decoded"
        /\ rects' = out.rects
    /\ passes' = Append(passes, "remove_gaps")
    /\ UNCHANGED <<container, max_size, border_thickness, freedoms, run, input>>
    /\ UNCHANGED <<flip_flop_args, flip_flop_result>>
    /\ UNCHANGED <<genvars, binvars, min_size, decoder_count, point, field_range,
                   field_value, objvars, mode>>

\* A layout that overlaps borders whatever the thickness.
overlaps_always(thickness) == TRUE

\* if self.overlap_borders_by > 0
overlaps(thickness) == thickness > 0

\* layout: overlap_borders(self.overlap_borders_by, container, &mut rects),
\* and layout returns.
LayoutOverlapBorders ==
    /\ pc = "decoded"
    /\ overlaps(border_thickness)
    /\ IF \E i \in DOMAIN rects :
            LET e == expansions(border_thickness, container, rects, i)
            IN  e.left > rects[i].x \/ e.top > rects[i].y
       THEN \/ pc' = "panic" /\ rects' = rects
            \/ /\ pc' = "returned"
               /\ rects' = overlap_borders(border_thickness, container, rects)
       ELSE /\ pc' = "returned"
            /\ rects' = overlap_borders(border_thickness, container, rects)
    /\ passes' = Append(passes, "overlap_borders")
    /\ UNCHANGED <<container, max_size, border_thickness, freedoms, run, input>>
    /\ UNCHANGED <<flip_flop_args, flip_flop_result>>
    /\ UNCHANGED <<genvars, binvars, min_size, decoder_count, point, field_range,
                   field_value, objvars, mode>>

\* layout returns the decoded rectangles as they are.
LayoutReturn ==
    /\ pc = "decoded"
    /\ ~overlaps(border_thickness)
    /\ pc' = "returned"
    /\ UNCHANGED <<container, max_size, border_thickness, rects, freedoms, run, input>>
    /\ UNCHANGED <<flip_flop_args, flip_flop_result>>
    /\ UNCHANGED <<genvars, binvars, decvars, objvars, mode>>

NextDecode ==
    \/ Decode2Fields
    \/ Decode2TrimOutside
    \/ Decode2RemoveGaps
    \/ LayoutOverlapBorders
    \/ LayoutReturn

SpecDecode == InitDecode /\ [][NextDecode]_vars

----------------------------------------------------------------------------
(* Properties of remove_gaps.                                              *)

total_area(rs) ==
    LET RECURSIVE sum(_)
        sum(k) == IF k > Len(rs) THEN 0 ELSE area(rs[k]) + sum(k + 1)
    IN  sum(1)

\* Some edge of some rectangle of rs is at least 1 further out in rs2.
SomeEdgeMoved(rs, rs2) ==
    \E i \in DOMAIN rs :
        \/ left(rs2[i]) <= left(rs[i]) - 1
        \/ right(rs2[i]) >= right(rs[i]) + 1
        \/ top(rs2[i]) <= top(rs[i]) - 1
        \/ bottom(rs2[i]) >= bottom(rs[i]) + 1

\* C5: remove_gaps terminates: every iteration of its loop that does not exit
\* moves at least one edge outward by at least 1 and strictly increases the
\* total area of the rectangles, which never exceeds count * max_size.area.
C5_EveryIterationGrows ==
    [][(pc = "loop" /\ pc' # "done") =>
            /\ pc' = "loop"
            /\ SomeEdgeMoved(rects, rects')
            /\ total_area(rects') > total_area(rects)
            /\ total_area(rects') <= Len(rects) * area(max_size)]_vars

\* An iteration has expanded some rectangle and the loop has then exited.
C5_Witness ==
    /\ pc = "done"
    /\ run = 1
    /\ total_area(rects) > total_area(input)

\* C6: if no two input rectangles overlap, no two rectangles overlap after
\* remove_gaps.
C6_NoOverlapIntroduced ==
    (pc = "done" /\ run = 1 /\ obscured_area(input) = 0) => obscured_area(rects) = 0

\* C7: in every iteration and at the end of remove_gaps no rectangle is wider
\* or higher than max_size.
C7_RespectsMaxSize ==
    \A i \in DOMAIN rects :
        /\ rects[i].width <= max_size.width
        /\ rects[i].height <= max_size.height

\* A rectangle has grown to max_size in both directions although the container
\* leaves it room to grow further in both.
C7_Witness ==
    /\ pc = "done"
    /\ run = 1
    /\ \E i \in DOMAIN rects :
        /\ input[i].width < max_size.width
        /\ input[i].height < max_size.height
        /\ rects[i].width = max_size.width
        /\ rects[i].height = max_size.height
        /\ max_size.width < container.width
        /\ max_size.height < container.height

\* C8: remove_gaps applied to its own output, with the same max_size and
\* container, changes no rectangle.
C8_Idempotent ==
    run = 2 => rects = input

\* C9: with max_size equal to the container and 1 to 3 rectangles, the
\* rectangles cover the whole container after remove_gaps.
C9_CoversContainer ==
    (pc = "done" /\ run = 1 /\ max_size = container /\ Len(rects) \in 1..3)
        => covered_area(rects) = area(container)

----------------------------------------------------------------------------
(* Properties of overlap_borders.                                          *)

\* Rectangles a and b of rs face each other across a vertical edge, a to the
\* left, at a distance of at most t.
AdjacentX(rs, t, a, b) ==
    /\ right(rs[a]) <= left(rs[b])
    /\ left(rs[b]) - right(rs[a]) <= t
    /\ intersects(y_range_exclusive(rs[a]), y_range_exclusive(rs[b]))

\* Rectangles a and b of rs face each other across a horizontal edge, a
\* above, at a distance of at most t.
AdjacentY(rs, t, a, b) ==
    /\ bottom(rs[a]) <= top(rs[b])
    /\ top(rs[b]) - bottom(rs[a]) <= t
    /\ intersects(x_range_exclusive(rs[a]), x_range_exclusive(rs[b]))

\* The half of the thickness the rectangle with index a moves its edge
\* facing the rectangle with index b by.
Half(t, a, b) == IF a < b THEN div_ceil(t, 2) ELSE t \div 2

\* C10: for every pair of adjacent rectangles overlap_borders moves the
\* facing edge of the one with the lower index by ceil(t/2) and the facing
\* edge of the other by floor(t/2), whatever other neighbours they have.
C10_AdjacentPairsShareThickness ==
    pc = "done" =>
        \A a, b \in DOMAIN rects : a # b =>
            /\ AdjacentX(input, border_thickness, a, b) =>
                /\ right(rects[a]) = right(input[a]) + Half(border_thickness, a, b)
                /\ left(rects[b]) = left(input[b]) - Half(border_thickness, b, a)
            /\ AdjacentY(input, border_thickness, a, b) =>
                /\ bottom(rects[a]) = bottom(input[a]) + Half(border_thickness, a, b)
                /\ top(rects[b]) = top(input[b]) - Half(border_thickness, b, a)

\* Rectangle r lies inside a container of size c.
Inside(c, r) ==
    /\ left(r) >= 0
    /\ top(r) >= 0
    /\ right(r) <= c.width
    /\ bottom(r) <= c.height

\* C11: overlap_borders underflows no coordinate and leaves every rectangle
\* inside the container; a single rectangle equal to the container is
\* returned unchanged.
C11_StaysInsideContainer ==
    pc # "call" =>
        /\ pc = "done"
        /\ \A i \in DOMAIN rects : Inside(container, rects[i])
        /\ input = <<Rect(0, 0, container.width, container.height)>> => rects = input

----------------------------------------------------------------------------
(* Properties of trim_outside.                                             *)

\* C12: trim_outside keeps the position of every rectangle, never increases
\* its width or height, keeps both at least 1, and leaves its right and
\* bottom edges inside the container.
C12_ClampsToContainer ==
    pc = "done" =>
        /\ Len(rects) = Len(input)
        /\ \A i \in DOMAIN rects :
            /\ rects[i].x = input[i].x
            /\ rects[i].y = input[i].y
            /\ rects[i].width <= input[i].width
            /\ rects[i].height <= input[i].height
            /\ rects[i].width >= 1
            /\ rects[i].height >= 1
            /\ right(rects[i]) <= container.width
            /\ bottom(rects[i]) <= container.height

\* A rectangle away from the origin that reached past the right and the
\* bottom edge has been clamped.
C12_Witness ==
    /\ pc = "done"
    /\ \E i \in DOMAIN rects :
        /\ input[i].x > 0
        /\ input[i].y > 0
        /\ right(input[i]) > container.width
        /\ bottom(input[i]) > container.height
        /\ right(rects[i]) = container.width
        /\ bottom(rects[i]) = container.height

----------------------------------------------------------------------------
(* reversed_bits_to_frac as a state machine: one call on one row of bits.  *)

InitFieldDecode ==
    /\ mode = "reversed_bits_to_frac"
    /\ InitLayoutGen
    /\ InitBinary
    /\ PostProcessorIdle
    /\ min_size = Size(1, 1)
    /\ decoder_count = 0
    /\ passes = <<>>
    /\ field_range \in FieldRanges
    /\ point \in UNION {[1..n -> BOOLEAN] : n \in 0..MaxFieldBits}
    /\ field_value = <<>>
    /\ ObjectiveIdle

\* The call reversed_bits_to_frac(start..=end, bits).
FieldDecode ==
    /\ field_value = <<>>
    /\ field_value' = <<reversed_bits_to_frac(field_range[1], field_range[2], point)>>
    /\ UNCHANGED <<min_size, decoder_count, point, passes, field_range>>
    /\ UNCHANGED <<ppvars, genvars, binvars, objvars, mode>>

NextFieldDecode == FieldDecode

SpecFieldDecode == InitFieldDecode /\ [][NextFieldDecode]_vars

----------------------------------------------------------------------------
(* The objectives as a state machine: one call of one evaluate.            *)

InitEvaluate ==
    /\ mode = "evaluate"
    /\ InitLayoutGen
    /\ InitBinary
    /\ DecoderIdle
    /\ \E a \in ObjectiveInputs :
        /\ container = a.container
        /\ rects = a.rects
    /\ max_size = container
    /\ border_thickness = 0
    /\ freedoms = <<>>
    /\ pc = "idle"
    /\ run = 0
    /\ input = rects
    /\ flip_flop_args = <<>>
    /\ flip_flop_result = <<>>
    /\ weights = <<>>
    /\ area_ratios = <<>>
    /\ previous_layout = <<>>
    /\ objective = "none"
    /\ fitness = f64_zero
    /\ covered = 0
    /\ obscured = 0
    /\ new_type = "none"
    /\ new_arg = <<>>
    /\ new_result = <<>>

\* PlaceAdjacentClose::new(container, rects.len()).evaluate(&rects)
EvaluateAdjacentClose ==
    /\ objective = "none"
    /\ objective' = "adjacent_close"
    /\ fitness' = PlaceAdjacentClose_evaluate(PlaceAdjacentClose(container, Len(rects)), rects)
    /\ UNCHANGED <<weights, area_ratios, previous_layout>>
    /\ UNCHANGED <<covered, obscured, new_type, new_arg, new_result>>
    /\ UNCHANGED <<ppvars, genvars, binvars, decvars, mode>>

\* MinimizeGaps::new(container).evaluate(&rects)
EvaluateGaps ==
    /\ objective = "none"
    /\ objective' = "gaps"
    /\ fitness' = MinimizeGaps_evaluate(MinimizeGaps(container), rects)
    /\ UNCHANGED <<weights, area_ratios, previous_layout>>
    /\ UNCHANGED <<covered, obscured, new_type, new_arg, new_result>>
    /\ UNCHANGED <<ppvars, genvars, binvars, decvars, mode>>

\* MaintainAreaRatios::new(ratios, container, rects.len()).evaluate(&rects)
EvaluateAreaRatios ==
    /\ objective = "none"
    /\ objective' = "area_ratios"
    /\ \E ratios \in AreaRatioLists :
        /\ area_ratios' = ratios
        /\ fitness' = MaintainAreaRatios_evaluate(
                            MaintainAreaRatios(ratios, max_size, Len(rects)), rects)
    /\ UNCHANGED <<weights, previous_layout>>
    /\ UNCHANGED <<covered, obscured, new_type, new_arg, new_result>>
    /\ UNCHANGED <<ppvars, genvars, binvars, decvars, mode>>

\* Problem::new(weights, area_ratios, vec![], max_size, container,
\* prev_layout).evaluate(&rects), where rects has prev_layout.len() + 1
\* rectangles.
EvaluateProblem ==
    /\ objective = "none"
    /\ Len(rects) >= 1
    /\ objective' = "problem"
    /\ \E w \in WeightChoices, prev \in PreviousLayouts(rects),
          ratios \in {l \in AreaRatioLists : Len(l) <= 1} :
        /\ weights' = w
        /\ area_ratios' = ratios
        /\ previous_layout' = prev
        /\ fitness' = Problem_evaluate(w, ratios, <<>>, max_size, container, prev, rects)
    /\ UNCHANGED <<covered, obscured, new_type, new_arg, new_result>>
    /\ UNCHANGED <<ppvars, genvars, binvars, decvars, mode>>

NextEvaluate ==
    \/ EvaluateAdjacentClose
    \/ EvaluateGaps
    \/ EvaluateAreaRatios
    \/ EvaluateProblem

SpecEvaluate == InitEvaluate /\ [][NextEvaluate]_vars

----------------------------------------------------------------------------
(* The consistency objective as a state machine: one call of evaluate on a *)
(* previous layout and a longer candidate.                                 *)

InitConsistency ==
    /\ mode = "consistency"
    /\ InitLayoutGen
    /\ InitBinary
    /\ DecoderIdle
    /\ \E a \in ObjectiveInputs :
        /\ container = a.container
        /\ rects = a.rects
    /\ max_size = container
    /\ border_thickness = 0
    /\ freedoms = <<>>
    /\ pc = "idle"
    /\ run = 0
    /\ input = rects
    /\ flip_flop_args = <<>>
    /\ flip_flop_result = <<>>
    /\ weights = <<>>
    /\ area_ratios = <<>>
    /\ previous_layout = <<>>
    /\ objective = "none"
    /\ fitness = f64_zero
    /\ covered = 0
    /\ obscured = 0
    /\ new_type = "none"
    /\ new_arg = <<>>
    /\ new_result = <<>>

\* MaximizeConsistency::new(container, prev).evaluate(&rects), where rects
\* is longer than prev.
EvaluateConsistency ==
    /\ objective = "none"
    /\ objective' = "consistency"
    /\ \E prev \in ShorterLayouts(container, rects) :
        /\ previous_layout' = prev
        /\ fitness' = MaximizeConsistency_evaluate(MaximizeConsistency(container, prev), rects)
    /\ UNCHANGED <<weights, area_ratios>>
    /\ UNCHANGED <<covered, obscured, new_type, new_arg, new_result>>
    /\ UNCHANGED <<ppvars, genvars, binvars, decvars, mode>>

NextConsistency == EvaluateConsistency

SpecConsistency == InitConsistency /\ [][NextConsistency]_vars

----------------------------------------------------------------------------
(* covered_area, obscured_area and the overlap objective as a state        *)
(* machine: one call of each on a sequence of rectangles.                  *)

\* Rectangles that overlap more: the contained rectangles of a 3x2
\* container, and layouts where three and four rectangles share cells.
OverlapInputs ==
    {[container |-> Size(3, 2), rects |-> rs] : rs \in ContainedRects(Size(3, 2))}
        \cup {[container |-> Size(3, 3),
               rects |-> <<Rect(0, 0, 3, 3), Rect(0, 0, 3, 3), Rect(0, 0, 3, 3)>>],
              [container |-> Size(4, 4),
               rects |-> <<Rect(0, 0, 3, 3), Rect(1, 1, 3, 3), Rect(2, 0, 2, 4),
                           Rect(0, 2, 4, 2)>>]}

InitOverlap ==
    /\ mode = "overlap"
    /\ InitLayoutGen
    /\ InitBinary
    /\ DecoderIdle
    /\ \E a \in ObjectiveInputs \cup OverlapInputs :
        /\ container = a.container
        /\ rects = a.rects
    /\ max_size = container
    /\ border_thickness = 0
    /\ freedoms = <<>>
    /\ pc = "idle"
    /\ run = 0
    /\ input = rects
    /\ flip_flop_args = <<>>
    /\ flip_flop_result = <<>>
    /\ weights = <<>>
    /\ area_ratios = <<>>
    /\ previous_layout = <<>>
    /\ objective = "none"
    /\ fitness = f64_zero
    /\ covered = 0
    /\ obscured = 0
    /\ new_type = "none"
    /\ new_arg = <<>>
    /\ new_result = <<>>

\* covered_area(&rects), obscured_area(&rects) and
\* MinimizeOverlap::new(container, rects.len()).evaluate(&rects)
EvaluateOverlap ==
    /\ objective = "none"
    /\ objective' = "overlap"
    /\ covered' = covered_area(rects)
    /\ obscured' = obscured_area(rects)
    /\ fitness' = MinimizeOverlap_evaluate(container, Len(rects), rects)
    /\ UNCHANGED <<weights, area_ratios, previous_layout>>
    /\ UNCHANGED <<new_type, new_arg, new_result>>
    /\ UNCHANGED <<ppvars, genvars, binvars, decvars, mode>>

NextOverlap == EvaluateOverlap

SpecOverlap == InitOverlap /\ [][NextOverlap]_vars

----------------------------------------------------------------------------
(* The closure flip_flop of remove_gaps as a state machine: one call.      *)

InitFlipFlop ==
    /\ mode = "flip_flop"
    /\ InitLayoutGen
    /\ InitBinary
    /\ DecoderIdle
    /\ ObjectiveIdle
    /\ container = Size(1, 1)
    /\ max_size = Size(1, 1)
    /\ border_thickness = 0
    /\ rects = <<>>
    /\ freedoms = <<>>
    /\ pc = "idle"
    /\ run = 0
    /\ input = <<>>
    /\ flip_flop_args \in (0..(2 * MaxSpan)) \X (0..MaxSpan) \X (0..MaxSpan)
    /\ flip_flop_result = <<>>

\* flip_flop(dist, x, y)
FlipFlop ==
    /\ flip_flop_result = <<>>
    /\ flip_flop_args # <<>>
    /\ flip_flop_result' = flip_flop(flip_flop_args[1], flip_flop_args[2], flip_flop_args[3])
    /\ UNCHANGED <<container, max_size, border_thickness, rects, freedoms, pc, run,
                   input, flip_flop_args>>
    /\ UNCHANGED <<genvars, binvars, decvars, objvars, mode>>

NextFlipFlop == FlipFlop

SpecFlipFlop == InitFlipFlop /\ [][NextFlipFlop]_vars

----------------------------------------------------------------------------
(* The bounded constructors as a state machine: one call of new.           *)

BoundedTypes == {"Weight", "AreaRatio", "AspectRatio"}

\* The f64 given to new: the quotients of small numbers around the bounds,
\* powers of two around f64::EPSILON and near the smallest normal number,
\* infinity and NaN, each with both signs.
NewArgs ==
    {Signed(neg, a) :
        neg \in BOOLEAN,
        a \in {f64_div(n, d) : n \in 0..MaxSpan, d \in 1..MaxSpan}
                \cup {f64_pow2(0 - k) : k \in {51, 52, 53, 1022}}
                \cup {f64_infinity, f64_nan}}

InitNew ==
    /\ mode = "new"
    /\ InitLayoutGen
    /\ InitBinary
    /\ PostProcessorIdle
    /\ DecoderIdle
    /\ weights = <<>>
    /\ area_ratios = <<>>
    /\ previous_layout = <<>>
    /\ objective = "none"
    /\ fitness = f64_zero
    /\ covered = 0
    /\ obscured = 0
    /\ new_type \in BoundedTypes
    /\ new_arg \in NewArgs
    /\ new_result = <<>>

\* Weight::new(value), AreaRatio::new(value) or AspectRatio::new(value)
New ==
    /\ new_result = <<>>
    /\ new_type \in BoundedTypes
    /\ new_result' = <<new(new_type, new_arg)>>
    /\ UNCHANGED <<new_type, new_arg>>
    /\ UNCHANGED <<weights, area_ratios, previous_layout, objective, fitness, covered,
                   obscured>>
    /\ UNCHANGED <<ppvars, genvars, binvars, decvars, mode>>

NextNew == New

SpecNew == InitNew /\ [][NextNew]_vars

----------------------------------------------------------------------------
(* Properties of the decoder and of the passes of RawLayoutGen::layout.    *)

\* C13: the layout that is returned went through trim_outside, then
\* remove_gaps, then overlap_borders, in that order and each once;
\* overlap_borders ran if and only if the thickness is positive, and no pass
\* ran after it.
C13_PassesInFixedOrder ==
    pc = "returned" =>
        passes = IF border_thickness > 0
                 THEN <<"trim_outside", "remove_gaps", "overlap_borders">>
                 ELSE <<"trim_outside", "remove_gaps">>

\* A layout of two rectangles is returned with overlapped borders, changed
\* by the passes.
C13_Witness ==
    /\ pc = "returned"
    /\ border_thickness > 0
    /\ passes[Len(passes)] = "overlap_borders"
    /\ Len(rects) = 2
    /\ rects # input

\* C14: for every configuration with min_size <= max_size <= container,
\* every count and every bit-vector of length bits(), decode2 returns without
\* a panic, and returns exactly count rectangles, each at a position that is
\* not negative, of a width within min_size.width..max_size.width and a
\* height within min_size.height..max_size.height, and inside the container.
C14_DecodesIntoRange ==
    /\ pc # "decode2_panic"
    /\ pc = "decoded" =>
        /\ Len(rects) = decoder_count
        /\ \A i \in DOMAIN rects :
            /\ rects[i].x >= 0
            /\ rects[i].y >= 0
            /\ min_size.width <= rects[i].width
            /\ rects[i].width <= max_size.width
            /\ min_size.height <= rects[i].height
            /\ rects[i].height <= max_size.height
            /\ Inside(container, rects[i])

\* decode2 returned two rectangles from a bit-vector whose fields take three
\* bits, and its passes changed what the fields decoded to.
C14_Witness ==
    /\ pc = "decoded"
    /\ decoder_count = 2
    /\ bits_per_rect(Decoder(min_size, max_size, container, decoder_count)) = 6
    /\ Len(rects) = 2
    /\ rects # input

\* The integer a row of bits stands for, bit 0 least significant.
RECURSIVE little_endian(_)
little_endian(bs) ==
    IF bs = <<>> THEN 0
    ELSE (IF bs[1] THEN 1 ELSE 0) + 2 * little_endian(Tail(bs))

\* C15: a field is read little-endian; a field of no bits and a field of
\* bits that are all false give the start of the range, bits that are all
\* true give its end, and every other pattern gives a value between the two.
C15_FieldDecoding ==
    field_value # <<>> =>
        /\ reversed_bits_to_int(point) = little_endian(point)
        /\ (\A i \in DOMAIN point : ~point[i]) =>
                field_value[1] = f64_from_usize(field_range[1])
        /\ (point # <<>> /\ \A i \in DOMAIN point : point[i]) =>
                field_value[1] = f64_from_usize(field_range[2])
        /\ f64_ge(field_value[1], field_range[1])
        /\ f64_le(field_value[1], field_range[2])

\* floor(log2(n)) for n >= 1.
floor_log2(n) == CHOOSE k \in 0..n : 2 ^ k <= n /\ n < 2 ^ (k + 1)

\* C16: bits_for(0) = 0, bits_for(1) = 1 and bits_for(n) = floor(log2(n - 1)) + 1
\* from 2 on, so that 2^bits_for(n) >= n; the decoder gives each field
\* bits_for(ceil(span / 128)) bits, lays the bits of x, y, width and height
\* one after the other from 0 in that order, and bits() is their total times
\* the count.
C16_BitWidths ==
    LET d == Decoder(min_size, max_size, container, decoder_count)
        width_of(range) == range.end - range.start
        field(span) == bits_for((span + 127) \div 128)
    IN  mode = "decode" =>
            /\ bits_for(0) = 0 /\ bits_for(1) = 1 /\ bits_for(2) = 1
            /\ bits_for(3) = 2 /\ bits_for(5) = 3
            /\ \A n \in 2..(MaxPointBits * MaxPointBits) :
                    bits_for(n) = floor_log2(n - 1) + 1
            /\ \A n \in 1..(MaxPointBits * MaxPointBits) : 2 ^ bits_for(n) >= n
            /\ width_of(d.x_bits_range) = field(container.width - min_size.width)
            /\ width_of(d.y_bits_range) = field(container.height - min_size.height)
            /\ width_of(d.width_bits_range) = field(max_size.width - min_size.width)
            /\ width_of(d.height_bits_range) = field(max_size.height - min_size.height)
            /\ d.x_bits_range.start = 0
            /\ d.y_bits_range.start = d.x_bits_range.end
            /\ d.width_bits_range.start = d.y_bits_range.end
            /\ d.height_bits_range.start = d.width_bits_range.end
            /\ bits(d) = decoder_count * (width_of(d.x_bits_range) + width_of(d.y_bits_range)
                                          + width_of(d.width_bits_range)
                                          + width_of(d.height_bits_range))
            /\ Len(point) = bits(d)

\* Two rectangles were decoded from ten bits each: three for x, two for y,
\* three for the width and two for the height.
C16_Witness ==
    LET d == Decoder(min_size, max_size, container, decoder_count)
    IN  /\ pc = "decoded"
        /\ d.x_bits_range = Range(0, 3)
        /\ d.y_bits_range = Range(3, 5)
        /\ d.width_bits_range = Range(5, 8)
        /\ d.height_bits_range = Range(8, 10)
        /\ Len(point) = 10

----------------------------------------------------------------------------
(* Properties of the objectives.                                           *)

\* (0.0..=1.0).contains(&v)
in_range_0_1(v) ==
    /\ v # f64_nan
    /\ v # f64_infinity
    /\ f64_le(v, 1)

\* C18: on every container and every sequence of rectangles inside it,
\* PlaceAdjacentClose::new(container, len).evaluate returns a value in
\* [0, 1]: the worst case is not zero when there are two rectangles or more,
\* and the sum of the least corner distances of the consecutive pairs does
\* not exceed it.
C18_AdjacentCloseInRange ==
    objective = "adjacent_close" =>
        /\ in_range_0_1(fitness)
        /\ Len(rects) >= 2 => PlaceAdjacentClose(container, Len(rects)).worst_case # 0
        /\ sum_of([i \in 1..(Len(rects) - 1) |-> corner_distance(rects[i], rects[i + 1])])
                <= PlaceAdjacentClose(container, Len(rects)).worst_case

\* Every unit cell of the container lies in some rectangle of rs.
Covers(c, rs) ==
    \A x \in 0..(c.width - 1), y \in 0..(c.height - 1) :
        \E i \in DOMAIN rs :
            /\ left(rs[i]) <= x /\ x < right(rs[i])
            /\ top(rs[i]) <= y /\ y < bottom(rs[i])

\* C20: on every container and every sequence of rectangles inside it,
\* MinimizeGaps::evaluate returns a value in [0, 1]: 1.0 for no rectangle
\* and for rectangles that are all 1x1 at one position, and 0.0 for
\* rectangles that cover the container.
C20_GapsInRange ==
    objective = "gaps" =>
        /\ in_range_0_1(fitness)
        /\ (\A i \in DOMAIN rects : rects[i] = Rect(rects[1].x, rects[1].y, 1, 1))
                => fitness = f64_from_usize(1)
        /\ Covers(container, rects) => fitness = f64_zero

\* C19: for every list of ratios from 1 on, as long as, longer or shorter
\* than the number of pairs, and every sequence of rectangles of areas from
\* 1 to the area of max_size, MaintainAreaRatios::evaluate returns a value in
\* [0, 1].
C19_AreaRatiosInRange ==
    objective = "area_ratios" => in_range_0_1(fitness)

\* The sum of the weights.
total_weight(w) ==
    w.gaps + w.overlap + w.area_ratios + w.aspect_ratios + w.adjacent_close
        + w.reading_order + w.center_main + w.consistency

\* C17: Problem::evaluate returns the sum of weight * objective over the
\* objectives of positive weight, so 0.0 when every weight is 0, and for
\* every sequence of rectangles inside the container with the configured
\* count the result lies between 0 and the sum of the weights.
C17_EvaluateInRange ==
    objective = "problem" =>
        /\ total_weight(weights) = 0 => fitness = f64_zero
        /\ fitness # f64_nan
        /\ fitness # f64_infinity
        /\ f64_le(fitness, total_weight(weights))

\* C21: for every container, every previous layout inside it and every
\* longer sequence of rectangles inside it, MaximizeConsistency::evaluate
\* returns a value in [0, 1], the summed distance to the previous rectangles
\* being at most the worst case, and 0.0 when the first rectangles equal the
\* previous layout, whatever the others are.
C21_ConsistencyInRange ==
    objective = "consistency" =>
        /\ in_range_0_1(fitness)
        /\ sum_of([i \in DOMAIN previous_layout |-> diff(rects[i], previous_layout[i])])
                <= MaximizeConsistency(container, previous_layout).worst_case
        /\ SubSeq(rects, 1, Len(previous_layout)) = previous_layout
                => fitness = f64_zero

\* A candidate at the worst case of its previous layout, with one more
\* rectangle.
C21_Witness ==
    /\ objective = "consistency"
    /\ Len(previous_layout) = 1
    /\ Len(rects) = 2
    /\ rects[1] # previous_layout[1]
    /\ fitness = f64_from_usize(1)

\* The number of rectangles of rs that cover the unit cell at (x, y).
cover_count(rs, x, y) ==
    Cardinality({i \in DOMAIN rs :
                    /\ left(rs[i]) <= x /\ x < right(rs[i])
                    /\ top(rs[i]) <= y /\ y < bottom(rs[i])})

\* The sum over the unit cells of c of cell_value[x, y], row by row.
sum_over_cells(c, cell_value(_, _)) ==
    sum_of([row \in 1..c.height |->
                sum_of([col \in 1..c.width |-> cell_value(col - 1, row - 1)])])

\* C22: covered_area is the number of unit cells covered by at least one
\* rectangle, and obscured_area is the sum over the unit cells of
\* max(0, k - 1) for the k rectangles that cover the cell; so with n >= 2
\* rectangles inside the container obscured_area is at most
\* (n - 1) * container.area, with equality when all equal the container,
\* and the overlap objective is 0.0 for fewer than 2 rectangles.
C22_CoveredAndObscuredArea ==
    objective = "overlap" =>
        LET covers(x, y) == IF cover_count(rects, x, y) >= 1 THEN 1 ELSE 0
            extra(x, y) == max(0, cover_count(rects, x, y) - 1)
        IN  /\ covered = sum_over_cells(container, covers)
            /\ obscured = sum_over_cells(container, extra)
            /\ Len(rects) >= 2 => obscured <= (Len(rects) - 1) * area(container)
            /\ (Len(rects) >= 2
                    /\ \A i \in DOMAIN rects :
                            rects[i] = Rect(0, 0, container.width, container.height))
                    => obscured = (Len(rects) - 1) * area(container)
            /\ Len(rects) < 2 => fitness = f64_zero

\* Two different rectangles that share cells, and cells they do not cover.
C22_Witness ==
    /\ objective = "overlap"
    /\ Len(rects) = 2
    /\ rects[1] # rects[2]
    /\ obscured > 0
    /\ covered < area(container)

\* The f64 v is greater than 0.
positive(v) == v.abs # f64_nan /\ ~v.neg /\ v.abs # f64_zero

\* The f64 v is 1 or greater.
at_least_one(v) ==
    /\ positive(v)
    /\ v.abs = f64_infinity \/ as_usize(v.abs) >= 1

\* C23: the bounded constructors never store an invalid value: Weight::new
\* accepts exactly the values >= 0, AreaRatio::new exactly the values >= 1
\* and AspectRatio::new exactly the values > 0; NaN yields the IsNan error,
\* a value below the bound yields TooLow, and every other value yields Ok
\* holding that value.
C23_BoundedConstructors ==
    new_result # <<>> =>
        LET valid == CASE new_type = "Weight" ->
                            positive(new_arg) \/ new_arg.abs = f64_zero
                       [] new_type = "AreaRatio" -> at_least_one(new_arg)
                       [] new_type = "AspectRatio" -> positive(new_arg)
        IN  new_result[1] =
                IF new_arg.abs = f64_nan THEN Err("IsNan", new_arg)
                ELSE IF valid THEN Ok(new_arg)
                ELSE Err("TooLow", new_arg)

\* C24: flip_flop(dist, x, y) returns (x', y') with x' <= x, y' <= y and
\* x' + y' = min(dist, x + y); when x >= ceil(dist / 2) and
\* y >= floor(dist / 2) it returns (ceil(dist / 2), floor(dist / 2)); and
\* neither of its two subtractions underflows.
C24_FlipFlopSharesTheBudget ==
    flip_flop_result # <<>> =>
        LET budget == flip_flop_args[1]
            x_limit == flip_flop_args[2]
            y_limit == flip_flop_args[3]
            half_up == (budget + 1) \div 2
            half_down == budget \div 2
        IN  /\ flip_flop_result[1] \in 0..x_limit
            /\ flip_flop_result[2] \in 0..y_limit
            /\ flip_flop_result[1] + flip_flop_result[2]
                    = (IF budget < x_limit + y_limit THEN budget ELSE x_limit + y_limit)
            /\ (x_limit >= half_up /\ y_limit >= half_down)
                    => flip_flop_result = <<half_up, half_down>>
            /\ budget >= (IF x_limit < half_up THEN x_limit ELSE half_up)
            /\ budget >= flip_flop_result[2]

\* An odd distance shared by two sides that are both unconstrained.
C24_Witness ==
    /\ flip_flop_result # <<>>
    /\ flip_flop_args[1] % 2 = 1
    /\ flip_flop_args[2] > flip_flop_args[1]
    /\ flip_flop_args[3] > flip_flop_args[1]
    /\ flip_flop_result[1] = flip_flop_result[2] + 1

\* The positive freedoms of all rectangles and edges.
positive_freedoms(fr) ==
    {v \in UNION {{fr[i].left, fr[i].right, fr[i].top, fr[i].bottom} : i \in DOMAIN fr} :
        v > 0}

\* The edge moves outward by the step if its freedom is positive, and not at
\* all if its freedom is zero.
moved_by(before, after, freedom, step) ==
    after = before + (IF freedom > 0 THEN step ELSE 0)

\* C25: in every iteration of remove_gaps all edges expand at the same rate:
\* the step is the least positive freedom over all rectangles and edges,
\* every edge with positive freedom moves outward by exactly that step and
\* every edge with zero freedom does not move; the loop exits exactly when no
\* edge has positive freedom; and container 10x10 with (2,2,6,1), (2,7,1,1),
\* (7,7,1,1) ends as (0,0,10,5), (0,5,5,5), (5,5,5,5).
C25_ExpandsAtSameRate ==
    [][pc = "loop" =>
            /\ (pc' = "done") = (positive_freedoms(freedoms') = {})
            /\ (pc' = "loop") = (positive_freedoms(freedoms') # {})
            /\ pc' = "loop" =>
                \E step \in positive_freedoms(freedoms') :
                    /\ \A v \in positive_freedoms(freedoms') : step <= v
                    /\ \A i \in DOMAIN rects :
                        /\ moved_by(left(rects'[i]), left(rects[i]),
                                    freedoms'[i].left, step)
                        /\ moved_by(right(rects[i]), right(rects'[i]),
                                    freedoms'[i].right, step)
                        /\ moved_by(top(rects'[i]), top(rects[i]),
                                    freedoms'[i].top, step)
                        /\ moved_by(bottom(rects[i]), bottom(rects'[i]),
                                    freedoms'[i].bottom, step)
            /\ (/\ pc' = "done"
                /\ container = Size(10, 10)
                /\ input = <<Rect(2, 2, 6, 1), Rect(2, 7, 1, 1), Rect(7, 7, 1, 1)>>)
                    => rects' = <<Rect(0, 0, 10, 5), Rect(0, 5, 5, 5), Rect(5, 5, 5, 5)>>]_vars

\* An iteration has expanded the rectangles by a step smaller than some
\* freedom, while some edge had no freedom.
C25_Witness ==
    /\ pc = "loop"
    /\ run = 1
    /\ rects # input
    /\ Cardinality(positive_freedoms(freedoms)) >= 2
    /\ \E i \in DOMAIN freedoms : freedoms[i].left = 0 \/ freedoms[i].top = 0

\* C26: remove_gaps only grows rectangles and keeps them inside the
\* container: after every iteration each rectangle contains its input
\* rectangle (left and top never increase, right and bottom never decrease),
\* no subtraction of a coordinate underflows, and right <= container.width
\* and bottom <= container.height.
C26_GrowsInsideContainer ==
    /\ pc # "panic"
    /\ Len(rects) = Len(input)
    /\ \A i \in DOMAIN rects :
        /\ left(rects[i]) <= left(input[i])
        /\ top(rects[i]) <= top(input[i])
        /\ right(rects[i]) >= right(input[i])
        /\ bottom(rects[i]) >= bottom(input[i])
        /\ left(rects[i]) >= 0
        /\ top(rects[i]) >= 0
        /\ right(rects[i]) <= container.width
        /\ bottom(rects[i]) <= container.height

\* A rectangle has grown from inside the container to its left and right
\* edges, and the loop goes on.
C26_Witness ==
    /\ pc = "loop"
    /\ run = 1
    /\ \E i \in DOMAIN rects :
        /\ left(input[i]) > 0
        /\ right(input[i]) < container.width
        /\ left(rects[i]) = 0
        /\ right(rects[i]) = container.width

\* Two open spans <<from, to>> have a point in common.
spans_meet(a, b) == a[1] < b[2] /\ b[1] < a[2]

\* The facing edges of rectangle i and of rectangle j on one axis, given the
\* spans of both before and after an iteration and whether the rectangles'
\* spans on the other axis meet: an edge strictly inside the other span or
\* at distance 0 from the other's facing edge stays.
facing_edges_stay(span, other, span2, other2, cross_meet) ==
    cross_meet =>
        /\ (other[1] < span[1] /\ span[1] < other[2]) => span2[1] = span[1]
        /\ (other[1] < span[2] /\ span[2] < other[2]) => span2[2] = span[2]
        /\ other[2] = span[1] => (span2[1] = span[1] /\ other2[2] = other[2])

\* The gap between a span and another one before it is not overrun: the two
\* expansions into the gap are at most the gap.
gap_is_shared(span, other, span2, other2) ==
    other[2] <= span[1] =>
        (span[1] - span2[1]) + (other2[2] - other[2]) <= span[1] - other[2]

\* C27: in every iteration of remove_gaps, for two rectangles whose spans
\* meet on one axis, an edge on the other axis that lies strictly inside the
\* other rectangle's span or at distance 0 from its facing edge is not
\* moved; and for two rectangles apart on an axis whose rays on the other
\* axis intersect, the two expansions into the gap are together at most the
\* gap.
C27_FacingEdges ==
    [][(pc = "loop" /\ pc' = "loop") =>
            \A i, j \in DOMAIN rects :
                i # j =>
                    /\ facing_edges_stay(
                            x_range_exclusive(rects[i]), x_range_exclusive(rects[j]),
                            x_range_exclusive(rects'[i]), x_range_exclusive(rects'[j]),
                            spans_meet(y_range_exclusive(rects[i]),
                                       y_range_exclusive(rects[j])))
                    /\ facing_edges_stay(
                            y_range_exclusive(rects[i]), y_range_exclusive(rects[j]),
                            y_range_exclusive(rects'[i]), y_range_exclusive(rects'[j]),
                            spans_meet(x_range_exclusive(rects[i]),
                                       x_range_exclusive(rects[j])))
                    /\ intersects(y_ray(max_size, container, rects, freedoms, i),
                                  y_ray(max_size, container, rects, freedoms, j))
                            => gap_is_shared(
                                    x_range_exclusive(rects[i]), x_range_exclusive(rects[j]),
                                    x_range_exclusive(rects'[i]), x_range_exclusive(rects'[j]))
                    /\ intersects(x_ray(max_size, container, rects, freedoms, i),
                                  x_ray(max_size, container, rects, freedoms, j))
                            => gap_is_shared(
                                    y_range_exclusive(rects[i]), y_range_exclusive(rects[j]),
                                    y_range_exclusive(rects'[i]), y_range_exclusive(rects'[j]))]_vars

\* C28: the callback of every layout() call is invoked exactly once, only
\* after the cell of its key is set, and with the layout cached for the key, so
\* that all callbacks of one key receive the same list of rectangles.
C28_CallbackOnceWithCachedLayout ==
    /\ [](\A id \in 1..Len(requests) :
            /\ Len(delivered[id]) <= 1
            /\ delivered[id] # <<>> =>
                    /\ cache[requests[id]].set
                    /\ delivered[id] = <<cache[requests[id]].layout>>)
    /\ [](\A id \in 1..Len(requests) : \A other \in 1..Len(requests) :
            (requests[id] = requests[other]
                    /\ delivered[id] # <<>> /\ delivered[other] # <<>>)
                => delivered[id] = delivered[other])
    /\ [][\A id \in 1..MaxRequests :
            delivered[id] # <<>> => delivered'[id] = delivered[id]]_vars
    /\ \A id \in 1..MaxRequests : (Len(requests) >= id) ~> (Len(delivered[id]) = 1)

\* The first layout() call for a key with count >= 1 has been answered by the
\* worker, the second call for the key is still waiting in its thread.
C28_Witness ==
    /\ Len(requests) = 2
    /\ requests[1] = requests[2]
    /\ requests[1][2] >= 1
    /\ delivered[1] = <<cache[requests[1]].layout>>
    /\ delivered[2] = <<>>
    /\ \E t \in threads : t.kind = "waiter" /\ t.key = requests[2]
                             /\ t.callback = UserCallback(2)

\* C29: the finished layout stored for a key holds exactly as many rectangles
\* as the count of the key: a layout() call for count 0 stores and delivers the
\* empty layout within the call and starts no worker, and every search for
\* count N is given a previous layout of N - 1 rectangles and produces N.
C29_LayoutHoldsCountRects ==
    /\ [](\A k \in Keys :
            /\ cache[k].set => Len(cache[k].layout) = k[2]
            /\ \A i \in 1..Len(prevs[k]) : Len(prevs[k][i]) = k[2] - 1
            /\ k[2] = 0 =>
                    /\ spawned[k] = 0
                    /\ cache[k].present => cache[k] = FullCell(<<>>))
    /\ [](\A t \in threads : t.kind = "worker" =>
            /\ t.key[2] >= 1
            /\ Len(t.prev_layout) = t.key[2] - 1
            /\ t.pc # "search" => Len(t.layout) = t.key[2])
    /\ [][\A k \in Keys : (Requested(k) /\ k[2] = 0) =>
            /\ cache'[k] = FullCell(<<>>)
            /\ delivered'[Len(requests')] = << <<>> >>
            /\ threads' = threads
            /\ spawned' = spawned]_vars

\* The layouts of counts 0, 1 and 2 of one container are finished, and the
\* search for count 2 ran on the layout of count 1.
C29_Witness ==
    \E c \in GenContainers :
        /\ cache[<<c, 0>>] = FullCell(<<>>)
        /\ cache[<<c, 1>>].set
        /\ cache[<<c, 2>>].set
        /\ Len(cache[<<c, 2>>].layout) = 2
        /\ prevs[<<c, 1>>] = << <<>> >>
        /\ prevs[<<c, 2>>] = <<cache[<<c, 1>>].layout>>
        /\ spawned[<<c, 0>>] = 0

\* The retry-layout command of the thread spawned for key has been sent.
command_sent(key) ==
    /\ key \in STARTED
    /\ \A t \in demand_threads : t.key # key

\* C30: a LayoutDemand for a key that is not in CACHE sends nothing to the
\* proxy; a LayoutDemand for a cached key sends one push_view_dimensions per
\* cached rectangle, in index order, and then one commit, all with the serial of
\* the demand; the thread inserts its layout into CACHE before it sends the
\* retry-layout command, so a demand for its key that follows the command finds
\* the key cached.
C30_DemandHandler ==
    /\ [][demands' = demands + 1 =>
            LET key == demand'[1]
                serial == demands'
            IN  IF CACHE[key] = <<>>
                THEN proxy' = <<>>
                ELSE LET layout == CACHE[key][1]
                     IN  /\ Len(proxy') = Len(layout) + 1
                         /\ \A i \in 1..Len(layout) :
                                /\ proxy'[i].request = "push_view_dimensions"
                                /\ proxy'[i].rect = layout[i]
                                /\ proxy'[i].serial = serial
                         /\ proxy'[Len(layout) + 1].request = "commit"
                         /\ proxy'[Len(layout) + 1].serial = serial]_vars
    /\ [](\A t \in demand_threads : t.pc = "command" => CACHE[t.key] = <<t.layout>>)
    /\ [](\A key \in Keys : command_sent(key) =>
            /\ CACHE[key] # <<>>
            /\ Len(CACHE[key][1]) = key[2])
    /\ [][\A key \in Keys : CACHE[key] # <<>> => CACHE'[key] = CACHE[key]]_vars
    /\ [][\A key \in Keys :
            (command_sent(key) /\ demands' = demands + 1 /\ demand' = <<key>>)
                => /\ Len(proxy') = key[2] + 1
                   /\ UNCHANGED <<STARTED, demand_threads>>]_vars

\* The second demand, for a key of two views, came after the retry-layout
\* command of the thread the first demand had spawned for the key: it pushed the
\* two different rectangles of the cached layout and committed with its serial.
C30_Witness ==
    /\ demands = 2
    /\ demand # <<>>
    /\ demand[1][2] = 2
    /\ STARTED = {demand[1]}
    /\ command_sent(demand[1])
    /\ Len(proxy) = 3
    /\ proxy[1].rect # proxy[2].rect
    /\ proxy[1].rect = CACHE[demand[1]][1][1]
    /\ proxy[2].rect = CACHE[demand[1]][1][2]
    /\ proxy[3] = [request |-> "commit", rect |-> Rect(0, 0, 0, 0), serial |-> 2]

====
